---- MODULE Spec2Model ----
(***************************************************************************)
(* Verification model of the meat-processing dashboard:                    *)
(*   - the Certificate Resolution Engine (GradeCertificatePrintModal),     *)
(*   - the Deduplicating Ingest Store (Dashboard.addAnimals and the        *)
(*     handlers that feed and prune animalList),                           *)
(*   - the Label Parser (Dashboard.processTxtFile).                        *)
(*                                                                         *)
(* A JavaScript string is a sequence of one-character strings, so that     *)
(* replace/split/trim/test are computed and not assumed.  Opaque texts     *)
(* (messages) are sequences holding a single token.  An optional value     *)
(* (T | undefined) is a sequence of length 0 or 1.                         *)
(***************************************************************************)
EXTENDS Integers, Sequences, FiniteSets, Bags, TLC

VARIABLES
  \* ---- GradeCertificatePrintModal / Dashboard modal mount ----
  certModalAnimals,  \* Dashboard state: None or Some(selected rows)
  certs,             \* component state of the mounted modal
  isPrinting,        \* component state of the mounted modal
  mountedRun,        \* index in runs of the mounted modal's effect run, 0 if none
  runs,              \* every fetchAll invocation: the fetch() calls it issued, in
                     \* order, what each ended in, its cache and its in-flight lookups
  printTimers        \* runs whose modal has a pending setTimeout of handlePrint

certVars == <<certModalAnimals, certs, isPrinting, mountedRun, runs, printTimers>>

VARIABLES
  \* ---- Dashboard: the row list and the ingestions that feed it ----
  animalList,        \* Dashboard state: the rows shown in the table
  asyncOps,          \* started file reads / image decodes whose callback has not run
  lastCall           \* outcome of the latest addAnimals call

storeVars == <<animalList, asyncOps, lastCall>>

VARIABLES
  \* ---- processTxtFile applied to one text ----
  txtText,           \* the decoded text of the dropped file
  txtOut             \* None, or Some(result of the parse loop)

parseVars == <<txtText, txtOut>>

VARIABLES
  \* ---- one request to the handler of /api/grade-certificate ----
  lkReq,             \* None, or Some(the request received)
  lkStep1,           \* None, or Some(how the step 1 call ended)
  lkIssueItems,      \* None, or Some(issueItems of step 1)
  lkGradeResults,    \* step 2: index of the issue entry -> what the mapped function returned
  lkCalls,           \* step 2: index of the issue entry -> how its upstream call ended
  lkRes              \* None, or Some(the Response returned)

lookupVars == <<lkReq, lkStep1, lkIssueItems, lkGradeResults, lkCalls, lkRes>>

VARIABLES
  \* ---- the updater passed to setCerts, applied to one prev and one cache ----
  rcPrev,            \* prev: the rows the updater is called with
  rcCache,           \* the cache of the fetchAll call the updater closes over
  rcNext             \* None, or Some(the rows the updater returned)

reconVars == <<rcPrev, rcCache, rcNext>>

VARIABLES
  \* ---- a record of the session, kept to state what was assigned before ----
  issuedIds          \* the ids addAnimals has given to rows so far

vars == <<certVars, storeVars, parseVars, lookupVars, reconVars, issuedIds>>

(***************************************************************************)
(* Bounds of the model                                                     *)
(***************************************************************************)
MaxSel == 3      \* rows selected for one modal
MaxRuns == 1     \* times the modal is opened
MaxLines == 3    \* lines of a label text
MaxRows == 2     \* rows of the row list
MaxBatch == 3    \* records of a batch handed to addAnimals
MaxAsync == 1    \* file reads and image decodes in progress
MaxReruns == 2   \* times the modal is opened where a reopening is studied
MaxRerunSel == 2 \* rows selected for a modal that is opened again
MaxPrev == 2     \* rows the setCerts updater is applied to
MaxIssues == 2   \* issue entries step 1 of the lookup returns

(***************************************************************************)
(* Strings                                                                 *)
(***************************************************************************)
None == <<>>
Some(v) == <<v>>

Digit == {"0", "1", "2", "3", "4", "5", "6", "7", "8", "9"}
UpperAZ == {"A", "B", "C", "D", "E", "F", "G", "H", "I", "J", "K", "L", "M",
            "N", "O", "P", "Q", "R", "S", "T", "U", "V", "W", "X", "Y", "Z"}
LowerAZ == {"a", "b", "c", "d", "e", "f", "g", "h", "i", "j", "k", "l", "m",
            "n", "o", "p", "q", "r", "s", "t", "u", "v", "w", "x", "y", "z"}
\* the characters of the regular-expression class \s that the inputs use
WhiteSpace == {" ", "\t", "\r", "\n"}

\* no.replace(/[-\s]/g, '')
StripNo(no) == SelectSeq(no, LAMBDA c : c \notin ({"-"} \cup WhiteSpace))

EkapeNoLen == 12

\* /^\d{12}$/.test(no.replace(/[-\s]/g, ''))
isValidEkapeNo(no) ==
  LET t == StripNo(no)
  IN  Len(t) = EkapeNoLen /\ \A i \in 1..Len(t) : t[i] \in Digit

\* the elements of a sequence, as a set
Range(s) == {s[i] : i \in 1..Len(s)}

\* [...new Set(s)]: first occurrences, in order
RECURSIVE SetOrder(_)
SetOrder(s) ==
  IF s = <<>> THEN <<>>
  ELSE LET r == SetOrder(SubSeq(s, 1, Len(s) - 1))
           x == s[Len(s)]
       IN  IF x \in Range(r) THEN r ELSE Append(r, x)

\* the decimal digits of n, padded to w characters
DigitChars == <<"0", "1", "2", "3", "4", "5", "6", "7", "8", "9">>
DigitsOf(n, w) == [i \in 1..w |-> DigitChars[((n \div (10 ^ (w - i))) % 10) + 1]]

(***************************************************************************)
(* Certificate Resolution Engine: GradeCertificatePrintModal               *)
(***************************************************************************)
\* numbers a selected row can carry (a row never starts with a letter)
NoA == DigitsOf(2191, 6) \o DigitsOf(46216, 6)
NoB == DigitsOf(2191, 6) \o DigitsOf(46217, 6)
NoAHyphen == SubSeq(NoA, 1, 4) \o <<"-">> \o SubSeq(NoA, 5, 8) \o <<" ">> \o SubSeq(NoA, 9, 12)
NoShort == DigitsOf(12345, 5)
SelNumbers == {NoA, NoB, NoAHyphen, NoShort}

\* the selected rows handed to the modal: ids in table order
Selections ==
  UNION {{[i \in 1..n |-> [id |-> i, animalNumber |-> f[i]]] : f \in [1..n -> SelNumbers]}
         : n \in 1..MaxSel}

MsgNetwork == <<"network error">>
MsgLookupFailed == <<"lookup failed">>
MsgNotFound == <<"no grading record for this number">>
MsgServer == <<"step 1 request failed (HTTP 503)">>
MsgFetch == <<"Failed to fetch">>
SkipPrefix == <<"EKAPE lookup impossible (not 12 digits: ">>
SkipSuffix == <<")">>

\* what one fetch of /api/grade-certificate?animalNo=k can end in
Json(animalNo, error, debug) ==
  [animalNo |-> animalNo, error |-> error, gradeInfoDebug |-> debug]
Response(ok, json) ==
  [kind |-> "response", ok |-> ok, json |-> json, isError |-> FALSE, message |-> <<>>]
Thrown(isError, message) ==
  [kind |-> "throw", ok |-> FALSE, json |-> Json(None, None, None),
   isError |-> isError, message |-> message]
Outcomes(k) ==
  { Response(TRUE, Json(Some(k), None, None)),
    Response(TRUE, Json(Some(k), None, Some(<<"proxy 403">>))),
    Response(FALSE, Json(Some(k), Some(MsgNotFound), None)),
    Response(FALSE, Json(None, Some(MsgServer), None)),
    Response(FALSE, Json(None, None, None)),
    Thrown(TRUE, MsgFetch),
    Thrown(FALSE, <<>>) }

\* useState initialiser of certs, for one row
InitialCert(a) ==
  [animalNo |-> a.animalNumber,
   animal   |-> a,
   status   |-> IF isValidEkapeNo(a.animalNumber) THEN "loading" ELSE "skipped",
   errorMsg |-> IF isValidEkapeNo(a.animalNumber)
                THEN None
                ELSE Some(SkipPrefix \o a.animalNumber \o SkipSuffix),
   data     |-> None]

\* useState initialiser of certs
InitialCerts(animals) == [i \in 1..Len(animals) |-> InitialCert(animals[i])]

\* animals.map((a) => a.animalNumber.replace(/[-\s]/g, ''))
StrippedNos(animals) == [i \in 1..Len(animals) |-> StripNo(animals[i].animalNumber)]

\* variant: one lookup per valid row, without the Set
uniqueNos_PerRow(animals) == SelectSeq(StrippedNos(animals), isValidEkapeNo)

\* variant: distinct stripped numbers, without the 12-digit filter
uniqueNos_NoFilter(animals) == SetOrder(StrippedNos(animals))

\* uniqueNos of fetchAll
uniqueNos(animals) == SetOrder(SelectSeq(StrippedNos(animals), isValidEkapeNo))

\* the value one lookup stores in the cache (try / catch of the mapped async function)
FetchResult(outcome) ==
  IF outcome.kind = "response"
  THEN [ok |-> outcome.ok, json |-> outcome.json]
  ELSE [ok |-> FALSE,
        json |-> Json(None,
                      Some(IF outcome.isError THEN outcome.message ELSE MsgNetwork),
                      None)]

\* cache.set(cleanNo, value)
MapSet(m, k, v) == [x \in (DOMAIN m) \cup {k} |-> IF x = k THEN v ELSE m[x]]

\* variant: the message is taken from the response as it is, absent or not
Resolved_NoDefault(c, result) ==
  IF ~result.ok
  THEN [c EXCEPT !.status = "error", !.errorMsg = result.json.error]
  ELSE [c EXCEPT !.status = "success", !.data = Some(result.json)]

\* what a row becomes when the result of its number is in the cache
Resolved(c, result) ==
  IF ~result.ok
  THEN [c EXCEPT !.status = "error",
                 !.errorMsg = IF result.json.error # None
                              THEN result.json.error
                              ELSE Some(MsgLookupFailed)]
  ELSE [c EXCEPT !.status = "success", !.data = Some(result.json)]

\* variant: the cache is read with the row's raw number
ReconcileRow_RawKey(c, cache) ==
  IF c.status = "skipped" THEN c
  ELSE IF c.animalNo \notin DOMAIN cache THEN c
       ELSE Resolved(c, cache[c.animalNo])

\* variant: no guard for skipped rows, a row without result becomes an error
ReconcileRow_NoSkipGuard(c, cache) ==
  IF StripNo(c.animalNo) \notin DOMAIN cache
  THEN [c EXCEPT !.status = "error", !.errorMsg = Some(MsgLookupFailed)]
  ELSE Resolved(c, cache[StripNo(c.animalNo)])

\* variant: a failed lookup leaves the row as it is
ReconcileRow_SuccessOnly(c, cache) ==
  IF c.status = "skipped" THEN c
  ELSE LET cleanNo == StripNo(c.animalNo)
       IN  IF cleanNo \notin DOMAIN cache \/ ~cache[cleanNo].ok THEN c
           ELSE Resolved(c, cache[cleanNo])

\* variant: a row without result is shown as failed
ReconcileRow_MissingIsError(c, cache) ==
  IF c.status = "skipped" THEN c
  ELSE LET cleanNo == StripNo(c.animalNo)
       IN  IF cleanNo \notin DOMAIN cache
           THEN [c EXCEPT !.status = "error", !.errorMsg = Some(MsgLookupFailed)]
           ELSE Resolved(c, cache[cleanNo])

\* the function mapped over prev by the updater passed to setCerts
ReconcileRow(c, cache) ==
  IF c.status = "skipped" THEN c
  ELSE LET cleanNo == StripNo(c.animalNo)
       IN  IF cleanNo \notin DOMAIN cache THEN c
           ELSE Resolved(c, cache[cleanNo])

\* the updater passed to setCerts after the join
Reconcile(prev, cache) == [i \in 1..Len(prev) |-> ReconcileRow(prev[i], cache)]

total == Len(certs)

\* variant: rows skipped at the start are not counted as loaded
loaded_ResolvedOnly ==
  Cardinality({i \in 1..Len(certs) : certs[i].status \in {"success", "error"}})

loaded == Cardinality({i \in 1..Len(certs) : certs[i].status # "loading"})
succeeded == Cardinality({i \in 1..Len(certs) : certs[i].status = "success"})

\* variant: the button is disabled only until something has loaded
PrintDisabled_UntilFirst == isPrinting \/ loaded = 0

\* disabled attribute of the print button
PrintDisabled == isPrinting \/ loaded < total

EmptyMap == [x \in {} |-> x]

\* a run of which nothing is reachable any more
DeadRun == [issued |-> <<>>, outcome |-> EmptyMap, cache |-> EmptyMap, pending |-> {}]

\* handlePrintGradeCertificates with a non-empty selection, the mount of the
\* modal and the start of its effect: every fetch of the run is issued here
Mount(selectedItems) ==
  /\ mountedRun = 0
  /\ Len(selectedItems) > 0
  /\ LET nos == uniqueNos(selectedItems)
     IN  /\ certModalAnimals' = Some(selectedItems)
         \* with no valid number the join is immediate and setCerts runs at once
         /\ certs' = IF nos = <<>>
                     THEN Reconcile(InitialCerts(selectedItems), EmptyMap)
                     ELSE InitialCerts(selectedItems)
         /\ isPrinting' = FALSE
         /\ mountedRun' = Len(runs) + 1
         /\ runs' = Append(runs, [issued  |-> nos,
                                  outcome |-> EmptyMap,
                                  cache   |-> EmptyMap,
                                  pending |-> Range(nos)])
  /\ UNCHANGED printTimers

\* the print button of the Dashboard, while the modal is closed
OpenModal(selectedItems) ==
  /\ Len(runs) < MaxRuns
  /\ Mount(selectedItems)

\* variant: a fail-fast join, where the first failing lookup rejects the join,
\* the other lookups are abandoned and every loading row is shown as failed
Settle_FailFast(r, cleanNo, outcome) ==
  /\ r \in 1..Len(runs)
  /\ cleanNo \in runs[r].pending
  /\ LET failed  == ~FetchResult(outcome).ok
         cache   == MapSet(runs[r].cache, cleanNo, FetchResult(outcome))
         pending == IF failed THEN {} ELSE runs[r].pending \ {cleanNo}
     IN  /\ runs' = [runs EXCEPT ![r] = IF pending = {} /\ r # mountedRun
                                        THEN DeadRun
                                        ELSE [@ EXCEPT !.outcome = MapSet(@, cleanNo, outcome),
                                                       !.cache = cache,
                                                       !.pending = pending]]
         /\ certs' = IF pending = {} /\ r = mountedRun
                     THEN IF failed
                          THEN [i \in 1..Len(certs) |->
                                 IF certs[i].status = "loading"
                                 THEN [certs[i] EXCEPT !.status = "error",
                                                       !.errorMsg = Some(MsgLookupFailed)]
                                 ELSE certs[i]]
                          ELSE Reconcile(certs, cache)
                     ELSE certs
  /\ UNCHANGED <<certModalAnimals, isPrinting, mountedRun, printTimers>>

\* variant: one cache and one row list for every run, so that the join of an
\* earlier run is copied onto the rows of the modal that is mounted now
Settle_AnyRun(r, cleanNo, outcome) ==
  /\ r \in 1..Len(runs)
  /\ cleanNo \in runs[r].pending
  /\ LET cache   == MapSet(runs[r].cache, cleanNo, FetchResult(outcome))
         pending == runs[r].pending \ {cleanNo}
     IN  /\ runs' = [runs EXCEPT ![r] = IF pending = {} /\ r # mountedRun
                                        THEN DeadRun
                                        ELSE [@ EXCEPT !.outcome = MapSet(@, cleanNo, outcome),
                                                       !.cache = cache,
                                                       !.pending = pending]]
         /\ certs' = IF pending = {} /\ mountedRun # 0
                     THEN Reconcile(certs, cache)
                     ELSE certs
  /\ UNCHANGED <<certModalAnimals, isPrinting, mountedRun, printTimers>>

\* variant: every lookup that settles copies the results so far onto the rows
Settle_Incremental(r, cleanNo, outcome) ==
  /\ r \in 1..Len(runs)
  /\ cleanNo \in runs[r].pending
  /\ LET cache   == MapSet(runs[r].cache, cleanNo, FetchResult(outcome))
         pending == runs[r].pending \ {cleanNo}
     IN  /\ runs' = [runs EXCEPT ![r] = IF pending = {} /\ r # mountedRun
                                        THEN DeadRun
                                        ELSE [@ EXCEPT !.outcome = MapSet(@, cleanNo, outcome),
                                                       !.cache = cache,
                                                       !.pending = pending]]
         /\ certs' = IF r = mountedRun THEN Reconcile(certs, cache) ELSE certs
  /\ UNCHANGED <<certModalAnimals, isPrinting, mountedRun, printTimers>>

\* One lookup of run r settles.  The last one to settle resolves Promise.all
\* and the continuation of fetchAll calls setCerts in the same job (a chain of
\* microtasks), so the join and the reconciliation belong to this step.
\* setCerts of an unmounted modal changes nothing; once fetchAll of such a
\* run has returned nothing of the run is reachable any more (DeadRun).
Settle(r, cleanNo, outcome) ==
  /\ r \in 1..Len(runs)
  /\ cleanNo \in runs[r].pending
  /\ LET cache   == MapSet(runs[r].cache, cleanNo, FetchResult(outcome))
         pending == runs[r].pending \ {cleanNo}
     IN  /\ runs' = [runs EXCEPT ![r] = IF pending = {} /\ r # mountedRun
                                        THEN DeadRun
                                        ELSE [@ EXCEPT !.outcome = MapSet(@, cleanNo, outcome),
                                                       !.cache = cache,
                                                       !.pending = pending]]
         /\ certs' = IF pending = {} /\ r = mountedRun
                     THEN Reconcile(certs, cache)
                     ELSE certs
  /\ UNCHANGED <<certModalAnimals, isPrinting, mountedRun, printTimers>>

\* click on the print button
handlePrint ==
  /\ mountedRun # 0
  /\ ~PrintDisabled
  /\ isPrinting' = TRUE
  /\ printTimers' = printTimers \cup {mountedRun}
  /\ UNCHANGED <<certModalAnimals, certs, mountedRun, runs>>

\* the setTimeout callback of handlePrint
PrintTimeout(r) ==
  /\ r \in printTimers
  /\ printTimers' = printTimers \ {r}
  /\ isPrinting' = IF r = mountedRun THEN FALSE ELSE isPrinting
  /\ UNCHANGED <<certModalAnimals, certs, mountedRun, runs>>

\* onClose: setCertModalAnimals(null) unmounts the modal
CloseModal ==
  /\ mountedRun # 0
  /\ certModalAnimals' = None
  /\ certs' = <<>>
  /\ isPrinting' = FALSE
  /\ mountedRun' = 0
  /\ runs' = [runs EXCEPT ![mountedRun] =
                 IF runs[mountedRun].pending = {} THEN DeadRun ELSE @]
  /\ UNCHANGED printTimers

CertNext ==
  \/ \E sel \in Selections : OpenModal(sel)
  \/ \E r \in 1..MaxRuns : \E k \in {StripNo(n) : n \in SelNumbers} :
       \E o \in Outcomes(k) : Settle(r, k, o)
  \/ handlePrint
  \/ \E r \in 1..MaxRuns : PrintTimeout(r)
  \/ CloseModal

\* the modal is not mounted; nothing ingested, no file read
CertInit ==
  /\ certModalAnimals = None
  /\ certs = <<>>
  /\ isPrinting = FALSE
  /\ mountedRun = 0
  /\ runs = <<>>
  /\ printTimers = {}
  /\ animalList = <<>>
  /\ asyncOps = EmptyBag
  /\ lastCall = None
  /\ txtText = <<>>
  /\ txtOut = None
  /\ lkReq = None
  /\ lkStep1 = None
  /\ lkIssueItems = None
  /\ lkGradeResults = EmptyMap
  /\ lkCalls = EmptyMap
  /\ lkRes = None
  /\ rcPrev = <<>>
  /\ rcCache = EmptyMap
  /\ rcNext = None
  /\ issuedIds = {}

SpecCert == CertInit /\ [][CertNext /\ UNCHANGED <<storeVars, parseVars, lookupVars, reconVars, issuedIds>>]_vars

(***************************************************************************)
(* The modal dismissed and opened again                                    *)
(***************************************************************************)
\* selections of rows carrying one of two valid numbers
RerunSelections ==
  {sel \in Selections :
     /\ Len(sel) <= MaxRerunSel
     /\ \A i \in 1..Len(sel) : sel[i].animalNumber \in {NoA, NoB}}

\* the print button of the Dashboard, the first time or after a dismissal
OpenModalAgain(selectedItems) ==
  /\ Len(runs) < MaxReruns
  /\ Mount(selectedItems)

RerunNext ==
  \/ \E sel \in RerunSelections : OpenModalAgain(sel)
  \/ \E r \in 1..MaxReruns : \E k \in {NoA, NoB} :
       \E o \in Outcomes(k) : Settle(r, k, o)
  \/ handlePrint
  \/ \E r \in 1..MaxReruns : PrintTimeout(r)
  \/ CloseModal

SpecRerun ==
  CertInit /\ [][RerunNext /\ UNCHANGED <<storeVars, parseVars, lookupVars, reconVars, issuedIds>>]_vars

(***************************************************************************)
(* The setCerts updater as a function of prev and cache                    *)
(***************************************************************************)
\* results a cache can hold for the number k: a record found, no record
RcResults(k) ==
  { FetchResult(Response(TRUE, Json(Some(k), None, None))),
    FetchResult(Response(FALSE, Json(Some(k), Some(MsgNotFound), None))) }

\* the caches of a fetchAll call: some of the valid numbers, each with a result
RcCaches ==
  UNION {{f \in [ks -> UNION {RcResults(k) : k \in ks}] : \A k \in ks : f[k] \in RcResults(k)}
         : ks \in SUBSET {NoA, NoB}}

\* what a row of the animal a can be: as initialised, or resolved by an
\* earlier call of the updater with a result of its own number
RcRowsOf(a) ==
  {InitialCert(a)} \cup
  (IF isValidEkapeNo(a.animalNumber)
   THEN {Resolved(InitialCert(a), res) : res \in RcResults(StripNo(a.animalNumber))}
   ELSE {})

RcPrevs ==
  UNION {{f \in [1..Len(sel) -> UNION {RcRowsOf(sel[i]) : i \in 1..Len(sel)}] :
             \A i \in 1..Len(sel) : f[i] \in RcRowsOf(sel[i])}
         : sel \in {x \in Selections : Len(x) <= MaxPrev}}

\* setCerts((prev) => prev.map(...)) with the cache of its fetchAll call
ApplyUpdater ==
  /\ rcNext = None
  /\ rcNext' = Some(Reconcile(rcPrev, rcCache))
  /\ UNCHANGED <<rcPrev, rcCache>>

\* the rows are rendered and the updater can be called again on them
Rerender ==
  /\ rcNext # None
  /\ rcPrev' = rcNext[1]
  /\ rcNext' = None
  /\ UNCHANGED rcCache

ReconNext == ApplyUpdater \/ Rerender

ReconInit ==
  /\ certModalAnimals = None
  /\ certs = <<>>
  /\ isPrinting = FALSE
  /\ mountedRun = 0
  /\ runs = <<>>
  /\ printTimers = {}
  /\ animalList = <<>>
  /\ asyncOps = EmptyBag
  /\ lastCall = None
  /\ txtText = <<>>
  /\ txtOut = None
  /\ lkReq = None
  /\ lkStep1 = None
  /\ lkIssueItems = None
  /\ lkGradeResults = EmptyMap
  /\ lkCalls = EmptyMap
  /\ lkRes = None
  /\ rcPrev \in RcPrevs
  /\ rcCache \in RcCaches
  /\ rcNext = None
  /\ issuedIds = {}

SpecRecon ==
  ReconInit /\ [][ReconNext /\ UNCHANGED <<certVars, storeVars, parseVars, lookupVars, issuedIds>>]_vars

\* Every fetch that was issued ends, and a timer that was set fires.
LookupSettles ==
  \E r \in 1..MaxRuns : \E k \in {StripNo(n) : n \in SelNumbers} :
    \E o \in Outcomes(k) : Settle(r, k, o)
TimerFires == \E r \in 1..MaxRuns : PrintTimeout(r)
SpecCertLive ==
  /\ SpecCert
  /\ WF_vars(LookupSettles /\ UNCHANGED <<storeVars, parseVars, lookupVars, reconVars, issuedIds>>)
  /\ WF_vars(TimerFires /\ UNCHANGED <<storeVars, parseVars, lookupVars, reconVars, issuedIds>>)

(***************************************************************************)
(* Strings of the label format                                             *)
(***************************************************************************)
BOM == "<U+FEFF>"
\* the characters String.prototype.trim removes
TrimSpace == WhiteSpace \cup {BOM}

\* s.trim()
RECURSIVE TrimLeft(_)
TrimLeft(s) ==
  IF s # <<>> /\ s[1] \in TrimSpace THEN TrimLeft(SubSeq(s, 2, Len(s))) ELSE s
RECURSIVE TrimRight(_)
TrimRight(s) ==
  IF s # <<>> /\ s[Len(s)] \in TrimSpace THEN TrimRight(SubSeq(s, 1, Len(s) - 1)) ELSE s
Trim(s) == TrimRight(TrimLeft(s))

\* s.split(sep) for a one-character separator: a sequence of strings
RECURSIVE Split(_, _)
Split(s, sep) ==
  IF \A i \in 1..Len(s) : s[i] # sep THEN <<s>>
  ELSE LET p == CHOOSE i \in 1..Len(s) : s[i] = sep /\ \A j \in 1..(i - 1) : s[j] # sep
       IN  <<SubSeq(s, 1, p - 1)>> \o Split(SubSeq(s, p + 1, Len(s)), sep)

\* parts[n]?.trim() ?? ''   (n counted from 0)
Field(parts, n) == IF n + 1 <= Len(parts) THEN Trim(parts[n + 1]) ELSE <<>>

\* /^\d{8}$/.test(s)
IsDate8(s) == Len(s) = 8 /\ \A i \in 1..Len(s) : s[i] \in Digit

\* /^[A-Za-z]/i.test(s)
StartsWithLetter(s) == s # <<>> /\ s[1] \in (UpperAZ \cup LowerAZ)

\* /^[A-Z]\d{10,}/.test(s)
IsLabelNo(s) ==
  /\ Len(s) >= 11
  /\ s[1] \in UpperAZ
  /\ \A i \in 2..11 : s[i] \in Digit

\* `${d.slice(0, 4)}-${d.slice(4, 6)}-${d.slice(6, 8)}` when d has 8 characters
FormatDate(rawDate) ==
  IF Len(rawDate) = 8
  THEN SubSeq(rawDate, 1, 4) \o <<"-">> \o SubSeq(rawDate, 5, 6) \o <<"-">> \o SubSeq(rawDate, 7, 8)
  ELSE rawDate

\* productPart.match(/^(.+?)\[(.+?)\]$/): the end of the first group, 0 if no match
BracketAt(s) ==
  LET n == Len(s)
      c == {p \in 1..n : p + 3 <= n /\ s[p + 1] = "[" /\ s[n] = "]"}
  IN  IF c = {} THEN 0 ELSE CHOOSE p \in c : \A q \in c : p <= q
productNameOf(s) == IF BracketAt(s) = 0 THEN s ELSE Trim(SubSeq(s, 1, BracketAt(s)))
partNameOf(s) ==
  IF BracketAt(s) = 0 THEN <<"-">> ELSE Trim(SubSeq(s, BracketAt(s) + 2, Len(s) - 1))

\* rawWeight.replace(/kg$/i, '')
StripKg(s) ==
  IF Len(s) >= 2 /\ s[Len(s) - 1] \in {"k", "K"} /\ s[Len(s)] \in {"g", "G"}
  THEN SubSeq(s, 1, Len(s) - 2)
  ELSE s

\* rawDestination.replace(/\([^)]*\)$/, '')
StripParen(s) ==
  LET n == Len(s)
      c == {q \in 1..n : s[q] = "(" /\ q < n /\ s[n] = ")"
                         /\ \A j \in (q + 1)..(n - 1) : s[j] # ")"}
  IN  IF c = {} THEN s
      ELSE SubSeq(s, 1, (CHOOSE q \in c : \A r \in c : q <= r) - 1)

\* v || undefined
OrUndefined(v) == IF v = <<>> THEN None ELSE Some(v)

(***************************************************************************)
(* Label Parser: processTxtFile                                            *)
(***************************************************************************)
\* `${productName} / ${partName} (${weight}kg)`
breedLabel(productPart, weight) ==
  productNameOf(productPart) \o <<" ", "/", " ">> \o partNameOf(productPart)
    \o <<" ", "(">> \o weight \o <<"k", "g", ")">>

\* the record built from the fields of a first line (sharedFields and the number)
LabelItem(parts) ==
  LET rawDate        == Field(parts, 0)
      productPart    == Field(parts, 1)
      rawDestination == Field(parts, 2)
      rawProcType    == Field(parts, 3)
      rawWeight      == Field(parts, 4)
      weight         == StripKg(rawWeight)
  IN  [animalNumber   |-> Field(parts, 5),
       breed          |-> breedLabel(productPart, weight),
       birthDate      |-> FormatDate(rawDate),
       destination    |-> OrUndefined(Trim(StripParen(rawDestination))),
       cutName        |-> IF partNameOf(productPart) # <<"-">>
                          THEN Some(partNameOf(productPart)) ELSE None,
       processingType |-> OrUndefined(rawProcType),
       weightKg       |-> OrUndefined(weight)]

\* text.replace(/^\uFEFF/, '').split(/\r?\n/).map(trim).filter(nonempty)
StripBOM(text) == IF text # <<>> /\ text[1] = BOM THEN SubSeq(text, 2, Len(text)) ELSE text
StripCR(l) == IF l # <<>> /\ l[Len(l)] = "\r" THEN SubSeq(l, 1, Len(l) - 1) ELSE l
NonEmpty(l) == l # <<>>
LinesOf(text) ==
  LET raw == Split(StripBOM(text), "\n")
  IN  SelectSeq([i \in 1..Len(raw) |->
                   Trim(IF i < Len(raw) THEN StripCR(raw[i]) ELSE raw[i])], NonEmpty)

\* variant: the line after a record is never consumed with it
Advance_One(lines, i) == 1

\* variant: the line after a record is consumed with it whatever it holds
Advance_Two(lines, i) == IF i + 1 <= Len(lines) THEN 2 ELSE 1

\* variant: the label pattern is matched without regard to case
Advance_AnyCase(lines, i) ==
  LET line2    == IF i + 1 <= Len(lines) THEN lines[i + 1] ELSE <<>>
      traceNo2 == Field(Split(line2, "|"), 0)
  IN  IF traceNo2 # <<>> /\ Len(traceNo2) >= 11 /\ StartsWithLetter(traceNo2)
         /\ (\A k \in 2..11 : traceNo2[k] \in Digit)
      THEN 2 ELSE 1

\* how far i moves after the record that starts at line i
Advance(lines, i) ==
  LET line2    == IF i + 1 <= Len(lines) THEN lines[i + 1] ELSE <<>>
      traceNo2 == Field(Split(line2, "|"), 0)
  IN  IF traceNo2 # <<>> /\ IsLabelNo(traceNo2) THEN 2 ELSE 1

\* variant: only an uppercase first letter keeps the number out
Emits_UpperOnly(traceNo1) == traceNo1 # <<>> /\ traceNo1[1] \notin UpperAZ

\* traceNo1 && !/^[A-Za-z]/i.test(traceNo1)
Emits(traceNo1) == traceNo1 # <<>> /\ ~StartsWithLetter(traceNo1)

\* the while loop from position i: the items pushed and the positions examined
RECURSIVE ParseLoop(_, _)

\* variant: a line that is not a record start ends the parse
ParseLoop_StopAtJunk(lines, i) ==
  IF i > Len(lines) THEN [items |-> <<>>, visited |-> <<>>]
  ELSE LET parts1 == Split(lines[i], "|")
       IN  IF ~IsDate8(Field(parts1, 0))
           THEN [items |-> <<>>, visited |-> <<i>>]
           ELSE LET item == LabelItem(parts1)
                    rest == ParseLoop(lines, i + Advance(lines, i))
                IN  [items   |-> (IF Emits(item.animalNumber) THEN <<item>> ELSE <<>>)
                                   \o rest.items,
                     visited |-> <<i>> \o rest.visited]

ParseLoop(lines, i) ==
  IF i > Len(lines) THEN [items |-> <<>>, visited |-> <<>>]
  ELSE LET parts1 == Split(lines[i], "|")
       IN  IF ~IsDate8(Field(parts1, 0))
           THEN LET rest == ParseLoop(lines, i + 1)
                IN  [items |-> rest.items, visited |-> <<i>> \o rest.visited]
           ELSE LET item == LabelItem(parts1)
                    rest == ParseLoop(lines, i + Advance(lines, i))
                IN  [items   |-> (IF Emits(item.animalNumber) THEN <<item>> ELSE <<>>)
                                   \o rest.items,
                     visited |-> <<i>> \o rest.visited]

MsgTxtEmpty == <<"txt file has no data">>
MsgTxtNone == <<"no identifiers found in txt file">>

\* variant: addAnimals is called with whatever the loop collected
ParseTxt_AlwaysCalls(text) ==
  LET lines == LinesOf(text)
      loop  == ParseLoop(lines, 1)
  IN  [lines   |-> lines,
       items   |-> loop.items,
       visited |-> loop.visited,
       message |-> IF lines = <<>> THEN Some(MsgTxtEmpty) ELSE None,
       calls   |-> lines # <<>>]

\* reader.onload of processTxtFile up to the call of addAnimals
ParseTxt(text) ==
  LET lines == LinesOf(text)
      loop  == ParseLoop(lines, 1)
  IN  [lines   |-> lines,
       items   |-> loop.items,
       visited |-> loop.visited,
       message |-> IF lines = <<>> THEN Some(MsgTxtEmpty)
                   ELSE IF loop.items = <<>> THEN Some(MsgTxtNone) ELSE None,
       calls   |-> lines # <<>> /\ loop.items # <<>>]

\* ---- texts fed to the parser ----
NoP == DigitsOf(2192, 6) \o DigitsOf(205667, 6)
NoQ == DigitsOf(2192, 6) \o DigitsOf(205668, 6)
NoLabel == <<"L">> \o DigitsOf(1, 3) \o DigitsOf(23456789, 8)
Date1 == DigitsOf(2025, 4) \o DigitsOf(1210, 4)
Date2 == DigitsOf(2025, 4) \o DigitsOf(1211, 4)
Bar == <<"|">>
\* 20251210|Hw[Sd]|Gil(Ob)|Dj|14.1kg|002192205667
LineA == Date1 \o Bar \o <<"H", "w", "[", "S", "d", "]">> \o Bar
           \o <<"G", "i", "l", "(", "O", "b", ")">> \o Bar \o <<"D", "j">> \o Bar
           \o <<"1", "4", ".", "1", "k", "g">> \o Bar \o NoP
\* 20251211|Hw [Ab c]| Sam |Sl|2KG|002192205668|Nh
LineB == Date2 \o Bar \o <<"H", "w", " ", "[", "A", "b", " ", "c", "]">> \o Bar
           \o <<" ", "S", "a", "m", " ">> \o Bar \o <<"S", "l">> \o Bar
           \o <<"2", "K", "G">> \o Bar \o NoQ \o Bar \o <<"N", "h">>
\* 20251210|Hw[Sd]|Gil(Ob)|Dj|14.1kg|L00123456789
LineL == SubSeq(LineA, 1, Len(LineA) - 12) \o NoLabel
\* 20251210|Hw[Sd]|Gil(Ob)|Dj|14.1kg|
LineE == SubSeq(LineA, 1, Len(LineA) - 12)
\* L0021922056671|Nh
Sec1 == <<"L">> \o NoP \o <<"1">> \o Bar \o <<"N", "h">>
\* A0123456789
Sec2 == <<"A">> \o DigitsOf(1234, 4) \o DigitsOf(56789, 6)
\* l0021922056671|Nh   and   L123456789|Nh   and   Date|Item
SecLower == <<"l">> \o NoP \o <<"1">> \o Bar \o <<"N", "h">>
SecShort == <<"L">> \o DigitsOf(123456789, 9) \o Bar \o <<"N", "h">>
Header == <<"D", "a", "t", "e">> \o Bar \o <<"I", "t", "e", "m">>
Blank == <<" ">>
\* 20251210|Hw[Sd]|Gil(Ob)|Dj|14.1kg|l00123456789
LineLower == LineE \o <<"l">> \o SubSeq(NoLabel, 2, Len(NoLabel))
\* 002192205669|Nh
SecNum == DigitsOf(2192, 6) \o DigitsOf(205669, 6) \o Bar \o <<"N", "h">>
LinePool == {LineA, LineB, LineL, LineE, LineLower, Sec1, Sec2, SecLower, SecShort, SecNum,
             Header, Blank}

\* lines joined by a line break
RECURSIVE JoinLines(_, _)
JoinLines(ls, eol) ==
  IF ls = <<>> THEN <<>>
  ELSE IF Len(ls) = 1 THEN ls[1]
  ELSE ls[1] \o eol \o JoinLines(SubSeq(ls, 2, Len(ls)), eol)

Texts(pool, maxLines) ==
  UNION {{JoinLines(ls, eol) : ls \in [1..n -> pool], eol \in {<<"\n">>, <<"\r", "\n">>}}
         : n \in 0..maxLines}
  \cup {<<BOM>> \o JoinLines(ls, <<"\n">>) : ls \in [1..maxLines -> pool]}

ParseInit ==
  /\ certModalAnimals = None
  /\ certs = <<>>
  /\ isPrinting = FALSE
  /\ mountedRun = 0
  /\ runs = <<>>
  /\ printTimers = {}
  /\ animalList = <<>>
  /\ asyncOps = EmptyBag
  /\ lastCall = None
  /\ txtText \in Texts(LinePool, MaxLines)
  /\ txtOut = None
  /\ lkReq = None
  /\ lkStep1 = None
  /\ lkIssueItems = None
  /\ lkGradeResults = EmptyMap
  /\ lkCalls = EmptyMap
  /\ lkRes = None
  /\ rcPrev = <<>>
  /\ rcCache = EmptyMap
  /\ rcNext = None
  /\ issuedIds = {}


(***************************************************************************)
(* Deduplicating Ingest Store: Dashboard.addAnimals and its callers        *)
(***************************************************************************)
Dash == <<"-">>

\* v ?? ''
OrEmpty(opt) == IF opt = None THEN <<>> ELSE opt[1]

\* variant: rows are told apart by the number alone
rowKey_NumberOnly(item) == item.animalNumber

\* rowKey of addAnimals: the five fields joined by '|'
rowKey(item) ==
  item.animalNumber \o Bar \o OrEmpty(item.destination) \o Bar \o OrEmpty(item.cutName)
    \o Bar \o OrEmpty(item.processingType) \o Bar \o OrEmpty(item.weightKg)

\* variant: the keys of the existing rows are their numbers alone
ExistingKeys_NumberOnly(list) == {list[i].animalNumber : i \in 1..Len(list)}

\* new Set(animalList.map(rowKey))
ExistingKeys(list) == {rowKey(list[i]) : i \in 1..Len(list)}

\* Math.max(0, ...animalList.map((a) => a.id)) + 1
RECURSIVE MaxOf(_)
MaxOf(ns) ==
  IF ns = {} THEN 0
  ELSE LET x == CHOOSE n \in ns : TRUE
           m == MaxOf(ns \ {x})
       IN  IF x > m THEN x ELSE m
FirstId(list) == MaxOf({0} \cup {list[i].id : i \in 1..Len(list)}) + 1

\* variant: the letter test is made on the number as entered
IsLabelPrefixed_Raw(animalNumber) == StartsWithLetter(animalNumber)

\* /^[A-Za-z]/i.test(item.animalNumber.replace(/[-\s]/g, ''))
IsLabelPrefixed(animalNumber) == StartsWithLetter(StripNo(animalNumber))

\* { ...item, id, selected: false }
RowOf(item, id) ==
  [id             |-> id,
   selected       |-> FALSE,
   animalNumber   |-> item.animalNumber,
   breed          |-> item.breed,
   birthDate      |-> item.birthDate,
   destination    |-> item.destination,
   cutName        |-> item.cutName,
   processingType |-> item.processingType,
   weightKg       |-> item.weightKg]

\* the for loop of addAnimals from position i
RECURSIVE AddLoop(_, _, _)

\* variant: the key is looked up before the letter test
AddLoop_DuplicateFirst(newItems, i, acc) ==
  IF i > Len(newItems) THEN acc
  ELSE LET item == newItems[i]
       IN  IF rowKey(item) \in acc.existingKeys
           THEN AddLoop(newItems, i + 1, [acc EXCEPT !.duplicateCount = @ + 1])
           ELSE IF IsLabelPrefixed(item.animalNumber)
           THEN AddLoop(newItems, i + 1, [acc EXCEPT !.labelSkipCount = @ + 1])
           ELSE AddLoop(newItems, i + 1,
                        [acc EXCEPT !.added = Append(@, RowOf(item, acc.nextId)),
                                    !.nextId = @ + 1,
                                    !.existingKeys = @ \cup {rowKey(item)}])

AddLoop(newItems, i, acc) ==
  IF i > Len(newItems) THEN acc
  ELSE LET item == newItems[i]
       IN  IF IsLabelPrefixed(item.animalNumber)
           THEN AddLoop(newItems, i + 1, [acc EXCEPT !.labelSkipCount = @ + 1])
           ELSE IF rowKey(item) \in acc.existingKeys
           THEN AddLoop(newItems, i + 1, [acc EXCEPT !.duplicateCount = @ + 1])
           ELSE AddLoop(newItems, i + 1,
                        [acc EXCEPT !.added = Append(@, RowOf(item, acc.nextId)),
                                    !.nextId = @ + 1,
                                    !.existingKeys = @ \cup {rowKey(item)}])

\* what addAnimals reads of the animalList of its closure
SeenOf(list) == [existingKeys |-> ExistingKeys(list), nextId |-> FirstId(list)]

\* addAnimals from the for loop on, given what it has read of its animalList
addFrom(seen, newItems) ==
  AddLoop(newItems, 1, [existingKeys   |-> seen.existingKeys,
                        nextId         |-> seen.nextId,
                        added          |-> <<>>,
                        duplicateCount |-> 0,
                        labelSkipCount |-> 0])

\* addAnimals as it runs with the animalList of its closure
addAnimals(list, newItems) == addFrom(SeenOf(list), newItems)

\* the counts a call reports
CallOf(newItems, res) ==
  Some([items          |-> newItems,
        addedCount     |-> Len(res.added),
        duplicateCount |-> res.duplicateCount,
        labelSkipCount |-> res.labelSkipCount])

\* reader.onload of processTxtFile on the text of a file read while the list
\* is as it was when the read started: the parse, then either showMessage or
\* addAnimals with its setAnimalList
ProcessTxt ==
  /\ txtOut = None
  /\ LET out == ParseTxt(txtText)
         res == addAnimals(animalList, out.items)
     IN  /\ txtOut' = Some(out)
         /\ animalList' = IF out.calls THEN animalList \o res.added ELSE animalList
         /\ lastCall' = IF out.calls THEN CallOf(out.items, res) ELSE lastCall
  /\ UNCHANGED <<txtText, asyncOps>>

ParseNext == ProcessTxt

SpecParse == ParseInit /\ [][ParseNext /\ UNCHANGED <<certVars, lookupVars, reconVars, issuedIds>>]_vars

\* a record that carries a number only
BareItem(animalNumber) ==
  [animalNumber   |-> animalNumber,
   breed          |-> Dash,
   birthDate      |-> Dash,
   destination    |-> None,
   cutName        |-> None,
   processingType |-> None,
   weightKg       |-> None]

\* the record handleBarcodeAdd builds from the trimmed input
BarcodeItem(trimmed) ==
  LET parts == Split(trimmed, "|")
  IN  IF Len(parts) >= 6 /\ IsDate8(Field(parts, 0))
      THEN LabelItem(parts)
      ELSE BareItem(trimmed)

\* the items processExcelFile builds from the cells of the number column
RECURSIVE ExcelItems(_)
ExcelItems(cells) ==
  IF cells = <<>> THEN <<>>
  ELSE (IF Trim(cells[1]) = <<>> THEN <<>> ELSE <<BareItem(Trim(cells[1]))>>)
         \o ExcelItems(SubSeq(cells, 2, Len(cells)))

\* the batch a finished read or decode hands to addAnimals; <<>> when it
\* reports an error instead
BatchOf(op) ==
  CASE op.kind = "txt"   -> ParseTxt(op.payload).items
    [] op.kind = "excel" -> ExcelItems(op.payload)
    [] op.kind = "image" -> IF Trim(op.payload) = <<>> THEN <<>>
                            ELSE <<BareItem(Trim(op.payload))>>

\* ---- what the user enters and drops ----
\* 20251210|Hw[Sd]|Sam(Ob)|Dj|14.1kg|L00123456789
LineL2 == Date1 \o Bar \o <<"H", "w", "[", "S", "d", "]">> \o Bar
            \o <<"S", "a", "m", "(", "O", "b", ")">> \o Bar \o <<"D", "j">> \o Bar
            \o <<"1", "4", ".", "1", "k", "g">> \o Bar \o NoLabel
NoHyLabel == <<"-", " ">> \o NoLabel
BarcodeInputs == {LineA, LineL, LineL2, NoP \o <<" ">>, NoHyLabel}
TxtFiles == {LineA \o <<"\n">> \o Sec1 \o <<"\n">> \o LineL}
ExcelFiles == {<<NoP, NoHyLabel, <<" ">>>>}
ImageFiles == {NoP}
DroppedFiles ==
  {[kind |-> "txt", payload |-> t] : t \in TxtFiles}
  \cup {[kind |-> "excel", payload |-> c] : c \in ExcelFiles}
  \cup {[kind |-> "image", payload |-> v] : v \in ImageFiles}

\* the batches of the inputs above, computed once
BarcodeBatch == [input \in BarcodeInputs |-> <<BarcodeItem(Trim(input))>>]
FileBatch == [file \in DroppedFiles |-> BatchOf(file)]

StoreInit ==
  /\ certModalAnimals = None
  /\ certs = <<>>
  /\ isPrinting = FALSE
  /\ mountedRun = 0
  /\ runs = <<>>
  /\ printTimers = {}
  /\ animalList = <<>>
  /\ asyncOps = EmptyBag
  /\ lastCall = None
  /\ txtText = <<>>
  /\ txtOut = None
  /\ lkReq = None
  /\ lkStep1 = None
  /\ lkIssueItems = None
  /\ lkGradeResults = EmptyMap
  /\ lkCalls = EmptyMap
  /\ lkRes = None
  /\ rcPrev = <<>>
  /\ rcCache = EmptyMap
  /\ rcNext = None
  /\ issuedIds = {}

\* the model stops adding rows at MaxRows rows and at the id MaxRows + 1
MaxId == MaxRows + 1
Fits(list, added) ==
  /\ Len(list) + Len(added) <= MaxRows
  /\ \A i \in 1..Len(added) : added[i].id <= MaxId

\* handleBarcodeAdd with the text of the input box
handleBarcodeAdd(barcodeInput) ==
  /\ Trim(barcodeInput) # <<>>
  /\ LET newItems == BarcodeBatch[barcodeInput]
         res      == addAnimals(animalList, newItems)
     IN  /\ Fits(animalList, res.added)
         /\ animalList' = animalList \o res.added
         /\ lastCall' = CallOf(newItems, res)
  /\ UNCHANGED asyncOps

\* processTxtFile / processExcelFile / processImageFile up to the start of the
\* read or decode.  The callback keeps the addAnimals of this render, and with
\* it the animalList of this render, of which addAnimals will read the row
\* keys and the largest id (seen).
StartFile(file) ==
  /\ BagCardinality(asyncOps) < MaxAsync
  /\ asyncOps' = asyncOps (+) SetToBag({[file |-> file, seen |-> SeenOf(animalList)]})
  /\ lastCall' = None
  /\ UNCHANGED animalList

\* reader.onload, or the continuation after the decode: addAnimals of the
\* render that started the operation, then setAnimalList((prev) => [...prev, ...added])
FinishFile(op) ==
  /\ BagIn(op, asyncOps)
  /\ LET newItems == FileBatch[op.file]
         res      == addFrom(op.seen, newItems)
     IN  /\ Fits(animalList, res.added)
         /\ animalList' = animalList \o res.added
         /\ lastCall' = IF newItems = <<>> THEN None ELSE CallOf(newItems, res)
  /\ asyncOps' = asyncOps (-) SetToBag({op})

handleToggleAll ==
  /\ animalList # <<>>
  /\ LET allSelected == \A i \in 1..Len(animalList) : animalList[i].selected
     IN  animalList' = [i \in 1..Len(animalList) |->
                          [animalList[i] EXCEPT !.selected = ~allSelected]]
  /\ lastCall' = None
  /\ UNCHANGED asyncOps

handleToggleItem(id) ==
  /\ \E i \in 1..Len(animalList) : animalList[i].id = id
  /\ animalList' = [i \in 1..Len(animalList) |->
                      IF animalList[i].id = id
                      THEN [animalList[i] EXCEPT !.selected = ~@]
                      ELSE animalList[i]]
  /\ lastCall' = None
  /\ UNCHANGED asyncOps

NotSelected(row) == ~row.selected

handleDeleteSelected ==
  /\ \E i \in 1..Len(animalList) : animalList[i].selected
  /\ animalList' = SelectSeq(animalList, NotSelected)
  /\ lastCall' = None
  /\ UNCHANGED asyncOps

handleDeleteItem(id) ==
  /\ \E i \in 1..Len(animalList) : animalList[i].id = id
  /\ LET Keep(item) == item.id # id
     IN  animalList' = SelectSeq(animalList, Keep)
  /\ lastCall' = None
  /\ UNCHANGED asyncOps

handleClearAll ==
  /\ Len(animalList) # 0
  /\ animalList' = <<>>
  /\ lastCall' = None
  /\ UNCHANGED asyncOps

StoreNext ==
  \/ \E input \in BarcodeInputs : handleBarcodeAdd(input)
  \/ \E file \in DroppedFiles : StartFile(file)
  \/ \E op \in BagToSet(asyncOps) : FinishFile(op)
  \/ handleToggleAll
  \/ \E id \in 1..MaxId : handleToggleItem(id)
  \/ handleDeleteSelected
  \/ \E id \in 1..MaxId : handleDeleteItem(id)
  \/ handleClearAll

SpecStore == StoreInit /\ [][StoreNext /\ UNCHANGED <<certVars, parseVars, lookupVars, reconVars, issuedIds>>]_vars

(***************************************************************************)
(* The ids given out in a session of entries and deletions                 *)
(***************************************************************************)
\* the handlers that run at once, and the ids of the rows of the list noted
IdsNext ==
  /\ \/ \E input \in BarcodeInputs : handleBarcodeAdd(input)
     \/ handleToggleAll
     \/ \E id \in 1..MaxId : handleToggleItem(id)
     \/ handleDeleteSelected
     \/ \E id \in 1..MaxId : handleDeleteItem(id)
     \/ handleClearAll
  /\ issuedIds' = issuedIds \cup {animalList'[i].id : i \in 1..Len(animalList')}

SpecIds == StoreInit /\ [][IdsNext /\ UNCHANGED <<certVars, parseVars, lookupVars, reconVars>>]_vars
(***************************************************************************)
\* the records of the barcode inputs
AddItems == {BarcodeBatch[input][1] : input \in BarcodeInputs}

\* the batches handed to addAnimals
AddBatches == UNION {[1..n -> AddItems] : n \in 0..MaxBatch}

\* the row lists addAnimals is applied to, ids in order.  Rows with a letter
\* number, which no ingestion produces, are among them so that the order of
\* the letter test and the key test shows.
AddLists ==
  UNION {{[i \in 1..n |-> RowOf(f[i], i)] : f \in [1..n -> AddItems]} : n \in 0..MaxRows}

\* addAnimals(newItems) of the current render, with its setAnimalList
CallAddAnimals(newItems) ==
  /\ lastCall = None
  /\ LET res == addAnimals(animalList, newItems)
     IN  /\ animalList' = animalList \o res.added
         /\ lastCall' = CallOf(newItems, res)
  /\ UNCHANGED asyncOps

AddNext == \E newItems \in AddBatches : CallAddAnimals(newItems)

AddInit ==
  /\ certModalAnimals = None
  /\ certs = <<>>
  /\ isPrinting = FALSE
  /\ mountedRun = 0
  /\ runs = <<>>
  /\ printTimers = {}
  /\ animalList \in AddLists
  /\ asyncOps = EmptyBag
  /\ lastCall = None
  /\ txtText = <<>>
  /\ txtOut = None
  /\ lkReq = None
  /\ lkStep1 = None
  /\ lkIssueItems = None
  /\ lkGradeResults = EmptyMap
  /\ lkCalls = EmptyMap
  /\ lkRes = None
  /\ rcPrev = <<>>
  /\ rcCache = EmptyMap
  /\ rcNext = None
  /\ issuedIds = {}

SpecAdd == AddInit /\ [][AddNext /\ UNCHANGED <<certVars, parseVars, lookupVars, reconVars, issuedIds>>]_vars

(***************************************************************************)
(* Lookup collaborator: the handler of /api/grade-certificate              *)
(***************************************************************************)
\* raw.replace(/[-\s]/g, '')
normalizeAnimalNo(raw) == SelectSeq(raw, LAMBDA c : c \notin ({"-"} \cup WhiteSpace))

AnimalNoLen == 12

\* /^\d{12}$/.test(animalNo)
IsTwelveDigits(animalNo) ==
  Len(animalNo) = AnimalNoLen /\ \A i \in 1..Len(animalNo) : animalNo[i] \in Digit

\* an optional string that is neither absent nor empty
Truthy(opt) == opt # None /\ opt[1] # <<>>

MsgMethod == <<"Method not allowed">>
MsgParam == <<"the animalNo parameter is required">>
MsgTwelve == <<"animalNo must be 12 digits without hyphens">>
MsgNoKey == <<"EKAPE_API_KEY is not set">>
MsgUnknownServer == <<"unknown server error">>
MsgUnknownApi == <<"unknown error">>
MsgNoIssueNo == <<"no issueNo">>
MsgStep1Failed(status) == <<"step 1 request failed (HTTP ", status, ")">>
MsgApiError(resultCode, resultMsg) ==
  <<"API error [">> \o (IF resultCode = None THEN <<"undefined">> ELSE resultCode[1])
    \o <<"]: ">> \o (IF resultMsg = None THEN MsgUnknownApi ELSE resultMsg[1])

\* the object a response carries as JSON
LkBody(error, received, animalNo, totalCount, items, gradeInfo, gradeInfoDebug) ==
  [error |-> error, received |-> received, animalNo |-> animalNo,
   totalCount |-> totalCount, items |-> items,
   gradeInfo |-> gradeInfo, gradeInfoDebug |-> gradeInfoDebug]
ErrorBody(message) == LkBody(Some(message), None, None, None, None, None, None)

\* jsonRes(data, status)
jsonRes(data, status) == [status |-> status, body |-> Some(data)]

\* variant: an upstream result code other than success gives no entries
extractItems_EmptyOnError(xml) ==
  [threw |-> FALSE, message |-> <<>>,
   items |-> IF xml.resultCode \notin {Some(<<"00">>), Some(<<"0">>)} \/ xml.item.shape = "absent"
             THEN <<>> ELSE xml.item.elems]

\* extractItems: the issue entries of the XML, or the Error it throws
extractItems(xml) ==
  IF xml.resultCode \notin {Some(<<"00">>), Some(<<"0">>)}
  THEN [threw |-> TRUE, message |-> MsgApiError(xml.resultCode, xml.resultMsg), items |-> <<>>]
  ELSE [threw |-> FALSE, message |-> <<>>,
        items |-> IF xml.item.shape = "absent" THEN <<>> ELSE xml.item.elems]

\* what the handler answers before any upstream call, None if it goes on
EarlyResponse(req) ==
  IF req.method = "OPTIONS" THEN Some([status |-> 200, body |-> None])
  ELSE IF req.method # "GET" THEN Some(jsonRes(ErrorBody(MsgMethod), 405))
  ELSE IF ~Truthy(req.rawAnimalNo) THEN Some(jsonRes(ErrorBody(MsgParam), 400))
  ELSE IF ~IsTwelveDigits(normalizeAnimalNo(req.rawAnimalNo[1]))
  THEN Some(jsonRes(LkBody(Some(MsgTwelve), Some(normalizeAnimalNo(req.rawAnimalNo[1])),
                           None, None, None, None, None), 400))
  ELSE IF ~Truthy(req.apiKey) THEN Some(jsonRes(ErrorBody(MsgNoKey), 500))
  ELSE None

\* String(issueItem.issueNo ?? '').trim()
IssueNoOf(issueItem) == Trim(OrEmpty(issueItem.issueNo))

\* what the function mapped over issueItems returns without a call
NoIssueNoResult == [issueNo |-> <<>>, items |-> <<>>, debug |-> Some(MsgNoIssueNo)]

\* what the function mapped over issueItems returns once its call has ended
GradeResult(issueNo, o) ==
  IF o.kind = "response"
  THEN IF ~o.ok \/ Truthy(o.json.error)
       THEN [issueNo |-> issueNo, items |-> <<>>,
             debug |-> Some(<<"proxy ", o.status, ": ">> \o OrEmpty(o.json.error))]
       ELSE [issueNo |-> issueNo, items |-> OrEmpty(o.json.items), debug |-> None]
  ELSE [issueNo |-> issueNo, items |-> <<>>,
        debug |-> Some(<<"proxy fetch: ">> \o o.message)]

\* gradeResults.flatMap((r) => r.items), for the results at positions i..n
RECURSIVE FlatItems(_, _, _)
FlatItems(results, i, n) ==
  IF i > n THEN <<>> ELSE results[i].items \o FlatItems(results, i + 1, n)

\* the filtered and mapped debug texts joined by ' || ', from position i
RECURSIVE JoinDebug(_, _, _)
JoinDebug(results, i, n) ==
  IF i > n THEN <<>>
  ELSE LET rest == JoinDebug(results, i + 1, n)
       IN  IF ~Truthy(results[i].debug) THEN rest
           ELSE <<"[">> \o results[i].issueNo \o <<"] ">> \o results[i].debug[1]
                  \o (IF rest = <<>> THEN <<>> ELSE <<" || ">> \o rest)

\* variant: a failed step 2 call fails the whole lookup
FinalResponse_FailOnDebug(animalNo, issueItems, results) ==
  LET n     == Len(issueItems)
      debug == JoinDebug(results, 1, n)
  IN  IF debug # <<>>
      THEN jsonRes(ErrorBody(debug), 502)
      ELSE jsonRes(LkBody(None, None, Some(animalNo), Some(n), Some(issueItems),
                          Some(FlatItems(results, 1, n)), None), 200)

\* the response after the join of step 2
FinalResponse(animalNo, issueItems, results) ==
  LET n     == Len(issueItems)
      debug == JoinDebug(results, 1, n)
  IN  jsonRes(LkBody(None, None, Some(animalNo), Some(n), Some(issueItems),
                     Some(FlatItems(results, 1, n)),
                     IF debug # <<>> THEN Some(debug) ELSE None), 200)

\* ---- requests and what the upstream services can do ----
LkRequests ==
  [method      : {"GET", "OPTIONS", "POST"},
   rawAnimalNo : {None, Some(<<>>), Some(NoA), Some(NoAHyphen), Some(NoShort)},
   apiKey      : {None, Some(<<"key">>)}]

IssueDate == Some(<<"20130110">>)
IssuePool ==
  {[issueNo |-> no, issueDate |-> IssueDate] : no \in {Some(<<"I1">>), Some(<<"I2">>), Some(<<" ">>), None}}
IssueLists(maxIssues) == UNION {[1..n -> IssuePool] : n \in 0..maxIssues}
Xml(resultCode, resultMsg, shape, elems) ==
  [resultCode |-> resultCode, resultMsg |-> resultMsg, item |-> [shape |-> shape, elems |-> elems]]
Xmls(maxIssues) ==
  {Xml(c, None, "array", l) : c \in {Some(<<"00">>), Some(<<"0">>)}, l \in IssueLists(maxIssues)}
  \cup {Xml(Some(<<"00">>), None, "single", <<x>>) : x \in IssuePool}
  \cup {Xml(Some(<<"00">>), None, "absent", <<>>)}
  \cup {Xml(c, m, "absent", <<>>) : c \in {Some(<<"99">>), None},
                                    m \in {None, Some(<<"SERVICE KEY IS NOT REGISTERED">>)}}
LkThrows ==
  {[kind |-> "throw", isError |-> TRUE, message |-> <<"fetch failed">>],
   [kind |-> "throw", isError |-> FALSE, message |-> <<"boom">>]}
Step1Outcomes(maxIssues) ==
  {[kind |-> "response", ok |-> TRUE, status |-> "200", xml |-> x] : x \in Xmls(maxIssues)}
  \cup {[kind |-> "response", ok |-> FALSE, status |-> "503",
         xml |-> Xml(None, None, "absent", <<>>)]}
  \cup {[kind |-> "throw", isError |-> t.isError, message |-> t.message, ok |-> FALSE,
         status |-> "", xml |-> Xml(None, None, "absent", <<>>)] : t \in LkThrows}
GradeItems == <<"grade detail">>
ProxyJson(items, error) == [items |-> items, error |-> error]
Step2Outcomes ==
  {[kind |-> "response", ok |-> TRUE, status |-> "200", json |-> j, message |-> <<>>] :
     j \in {ProxyJson(Some(GradeItems), None), ProxyJson(None, None),
            ProxyJson(Some(GradeItems), Some(<<>>)),
            ProxyJson(None, Some(<<"upstream error">>))}}
  \cup {[kind |-> "response", ok |-> FALSE, status |-> "403", json |-> j, message |-> <<>>] :
          j \in {ProxyJson(None, Some(<<"forbidden">>)), ProxyJson(Some(GradeItems), None)}}
  \cup {[kind |-> "throw", ok |-> FALSE, status |-> "", json |-> ProxyJson(None, None),
         message |-> m] : m \in {<<"timeout_20s">>, <<"fetch failed">>, <<"boom">>}}

\* the step 2 results that need no call, and the calls still in flight
ImmediateResults(issueItems) ==
  [i \in {j \in 1..Len(issueItems) : IssueNoOf(issueItems[j]) = <<>>} |-> NoIssueNoResult]
LkPending == IF lkIssueItems = None THEN {}
             ELSE (1..Len(lkIssueItems[1])) \ DOMAIN lkGradeResults
LkAnimalNo == normalizeAnimalNo(lkReq[1].rawAnimalNo[1])

\* the handler up to its first upstream call
LkRequest(req) ==
  /\ lkReq = None
  /\ lkReq' = Some(req)
  /\ lkRes' = EarlyResponse(req)
  /\ UNCHANGED <<lkStep1, lkIssueItems, lkGradeResults, lkCalls>>

\* the step 1 call ends.  Without an entry that needs a step 2 call the join
\* of step 2 is immediate and the handler returns in this step.
LkStep1Settle(o) ==
  /\ lkReq # None /\ lkRes = None /\ lkIssueItems = None
  /\ IF o.kind = "throw"
     THEN /\ lkRes' = Some(jsonRes(ErrorBody(IF o.isError THEN o.message
                                             ELSE MsgUnknownServer), 500))
          /\ UNCHANGED <<lkIssueItems, lkGradeResults>>
     ELSE IF ~o.ok
     THEN /\ lkRes' = Some(jsonRes(ErrorBody(MsgStep1Failed(o.status)), 502))
          /\ UNCHANGED <<lkIssueItems, lkGradeResults>>
     ELSE LET ex == extractItems(o.xml)
          IN  IF ex.threw
              THEN /\ lkRes' = Some(jsonRes(ErrorBody(ex.message), 500))
                   /\ UNCHANGED <<lkIssueItems, lkGradeResults>>
              ELSE IF Len(ex.items) = 0
              THEN /\ lkRes' = Some(jsonRes(LkBody(Some(MsgNotFound), None, Some(LkAnimalNo),
                                                   None, None, None, None), 404))
                   /\ UNCHANGED <<lkIssueItems, lkGradeResults>>
              ELSE LET results == ImmediateResults(ex.items)
                   IN  /\ lkIssueItems' = Some(ex.items)
                       /\ lkGradeResults' = results
                       /\ lkRes' = IF DOMAIN results = 1..Len(ex.items)
                                   THEN Some(FinalResponse(LkAnimalNo, ex.items, results))
                                   ELSE None
  /\ lkStep1' = Some(o)
  /\ UNCHANGED <<lkReq, lkCalls>>

\* the step 2 call of entry i ends (response, rejection or the 20 s timer);
\* the last one to end resolves Promise.all and the handler returns
LkStep2Settle(i, o) ==
  /\ lkRes = None
  /\ i \in LkPending
  /\ LET results == MapSet(lkGradeResults, i, GradeResult(IssueNoOf(lkIssueItems[1][i]), o))
     IN  /\ lkGradeResults' = results
         /\ lkCalls' = MapSet(lkCalls, i, o)
         /\ lkRes' = IF DOMAIN results = 1..Len(lkIssueItems[1])
                     THEN Some(FinalResponse(LkAnimalNo, lkIssueItems[1], results))
                     ELSE None
  /\ UNCHANGED <<lkReq, lkStep1, lkIssueItems>>

LookupNext ==
  \/ \E req \in LkRequests : LkRequest(req)
  \/ \E o \in Step1Outcomes(MaxIssues) : LkStep1Settle(o)
  \/ \E i \in 1..MaxIssues : \E o \in Step2Outcomes : LkStep2Settle(i, o)

LookupInit ==
  /\ certModalAnimals = None
  /\ certs = <<>>
  /\ isPrinting = FALSE
  /\ mountedRun = 0
  /\ runs = <<>>
  /\ printTimers = {}
  /\ animalList = <<>>
  /\ asyncOps = EmptyBag
  /\ lastCall = None
  /\ txtText = <<>>
  /\ txtOut = None
  /\ lkReq = None
  /\ lkStep1 = None
  /\ lkIssueItems = None
  /\ lkGradeResults = EmptyMap
  /\ lkCalls = EmptyMap
  /\ lkRes = None
  /\ rcPrev = <<>>
  /\ rcCache = EmptyMap
  /\ rcNext = None
  /\ issuedIds = {}

SpecLookup ==
  LookupInit /\ [][LookupNext /\ UNCHANGED <<certVars, storeVars, parseVars, reconVars, issuedIds>>]_vars

(***************************************************************************)
(* Properties of the Certificate Resolution Engine                         *)
(***************************************************************************)
\* what the numbers of SelNumbers are once hyphens and spaces are removed,
\* and which of them are then exactly 12 digits (written out, not computed)
CleanOracle(no) ==
  CASE no = NoA       -> <<"0", "0", "2", "1", "9", "1", "0", "4", "6", "2", "1", "6">>
    [] no = NoAHyphen -> <<"0", "0", "2", "1", "9", "1", "0", "4", "6", "2", "1", "6">>
    [] no = NoB       -> <<"0", "0", "2", "1", "9", "1", "0", "4", "6", "2", "1", "7">>
    [] no = NoShort   -> <<"1", "2", "3", "4", "5">>
ValidOracle(no) == no \in {NoA, NoAHyphen, NoB}

Mounted == mountedRun # 0
Sel == certModalAnimals[1]
MRun == runs[mountedRun]
RowNo(i) == certs[i].animal.animalNumber
RowKey(i) == CleanOracle(RowNo(i))
RowValid(i) == ValidOracle(RowNo(i))
Rows == 1..Len(certs)
RunCompleted == Mounted /\ MRun.pending = {}
AnyLoading == \E i \in Rows : certs[i].status = "loading"
Failed(o) == o.kind = "throw" \/ ~o.ok

\* the distinct 12-digit numbers among the selected rows
DistinctValid == {CleanOracle(Sel[i].animalNumber) :
                    i \in {j \in 1..Len(Sel) : ValidOracle(Sel[j].animalNumber)}}

\* C1: in a run the lookups issued are exactly the distinct stripped 12-digit
\* numbers of the selected rows, each issued once, however many rows share one.
C1_OneLookupPerDistinctNumber ==
  Mounted =>
    LET issued == MRun.issued
    IN  /\ Len(issued) = Cardinality(DistinctValid)
        /\ Range(issued) = DistinctValid
        /\ \A i, j \in 1..Len(issued) : issued[i] = issued[j] => i = j

\* rows A, B, A: two lookups
C1_Witness ==
  /\ Mounted /\ Len(Sel) = 3
  /\ Sel[1].animalNumber = NoA /\ Sel[2].animalNumber = NoB /\ Sel[3].animalNumber = NoA
  /\ Len(MRun.issued) = 2

\* C2: after the run has completed, rows with equal stripped numbers show the
\* same status, the same payload and, when failed, the same error message; a
\* row shows error when its number's lookup failed and success when it succeeded.
C2_SameKeySameResult ==
  RunCompleted =>
    /\ \A i, j \in Rows :
         RowKey(i) = RowKey(j) =>
           /\ certs[i].status = certs[j].status
           /\ certs[i].data = certs[j].data
           /\ (certs[i].status = "error" => certs[i].errorMsg = certs[j].errorMsg)
    /\ \A i \in Rows :
         RowValid(i) =>
           /\ RowKey(i) \in DOMAIN MRun.outcome
           /\ (Failed(MRun.outcome[RowKey(i)]) => certs[i].status = "error")
           /\ (~Failed(MRun.outcome[RowKey(i)]) => certs[i].status = "success")

\* rows 1 and 3 share a number (written differently) whose lookup failed, row 2 succeeded
C2_Witness ==
  /\ RunCompleted /\ Len(certs) = 3
  /\ RowNo(1) = NoA /\ RowNo(2) = NoB /\ RowNo(3) = NoAHyphen
  /\ certs[1].status = "error" /\ certs[3].status = "error"
  /\ certs[1].errorMsg = Some(MsgNotFound) /\ certs[3].errorMsg = Some(MsgNotFound)
  /\ certs[2].status = "success"

\* C3: a row is always in one of the four states; a row with an invalid number
\* is skipped from the start; the only changes are loading -> success and
\* loading -> error, of rows with a valid number.
C3_StatusInv ==
  Mounted =>
    /\ Len(certs) = Len(Sel)
    /\ \A i \in Rows :
         /\ certs[i].status \in {"loading", "success", "error", "skipped"}
         /\ (~RowValid(i) => certs[i].status = "skipped")
         /\ (RowValid(i) => certs[i].status # "skipped")
C3_StatusStep ==
  (Mounted /\ mountedRun' = mountedRun) =>
    /\ Len(certs') = Len(certs)
    /\ \A i \in Rows :
         certs'[i].status # certs[i].status =>
           /\ certs[i].status = "loading"
           /\ certs'[i].status \in {"success", "error"}
           /\ RowValid(i)
C3_StatusTransitions == []C3_StatusInv /\ [][C3_StatusStep]_vars

\* a skipped row next to a row that has gone from loading to success
C3_Witness ==
  /\ RunCompleted /\ Len(certs) = 3
  /\ certs[1].status = "skipped" /\ certs[2].status = "success" /\ certs[3].status = "error"

\* C4: the print button is disabled while a row is loading, it is enabled in
\* the state reached when the last pending lookup settles, and a click on it
\* never happens with a row still loading.
C4_DisabledWhileLoading == (Mounted /\ AnyLoading) => PrintDisabled
C4_EnabledAtLastSettle ==
  (Mounted /\ mountedRun' = mountedRun /\ MRun.pending # {}
     /\ runs'[mountedRun].pending = {}) => ~PrintDisabled'
C4_ClickOnlyWhenSettled ==
  (Mounted /\ mountedRun' = mountedRun /\ ~isPrinting /\ isPrinting') => ~AnyLoading
C4_PrintGating ==
  /\ []C4_DisabledWhileLoading
  /\ [][C4_EnabledAtLastSettle]_vars
  /\ [][C4_ClickOnlyWhenSettled]_vars

\* the button has just become usable after lookups that ended in success and in error
C4_Witness ==
  /\ RunCompleted /\ ~PrintDisabled
  /\ \E i, j \in Rows : certs[i].status = "error" /\ certs[j].status = "success"

\* C5: a failing lookup takes only its own number out of the in-flight set and
\* writes only its own cache slot; after the run every row of a valid number
\* is in the state given by that number's own outcome.
C5_OwnSlotOnly ==
  \A r \in 1..Len(runs) :
    \A k \in runs[r].pending :
      (k \notin runs'[r].pending /\ runs'[r] # DeadRun) =>
        /\ runs'[r].pending = runs[r].pending \ {k}
        /\ DOMAIN runs'[r].cache = DOMAIN runs[r].cache \cup {k}
        /\ \A x \in DOMAIN runs[r].cache : runs'[r].cache[x] = runs[r].cache[x]
C5_OwnOutcome ==
  RunCompleted =>
    \A i \in Rows :
      RowValid(i) =>
        /\ RowKey(i) \in DOMAIN MRun.outcome
        /\ certs[i].status = IF Failed(MRun.outcome[RowKey(i)]) THEN "error" ELSE "success"
        /\ (certs[i].status = "success" =>
              certs[i].data = Some(MRun.outcome[RowKey(i)].json))
C5_FailureIsolation == []C5_OwnOutcome /\ [][C5_OwnSlotOnly]_vars

\* one number failed by an exception, the other number's row still got its own payload
C5_Witness ==
  /\ RunCompleted
  /\ \E i, j \in Rows :
       /\ RowKey(i) # RowKey(j)
       /\ certs[i].status = "error" /\ MRun.outcome[RowKey(i)].kind = "throw"
       /\ certs[j].status = "success"
       /\ certs[j].data = Some(Json(Some(RowKey(j)), None, None))

\* C6: a row whose stripped number is not exactly 12 digits is skipped in every
\* state of the run, and no lookup is ever issued, in flight or cached for it.
C6_InvalidSkipped ==
  /\ Mounted =>
       \A i \in Rows :
         ~RowValid(i) =>
           /\ certs[i].status = "skipped"
           /\ RowKey(i) \notin Range(MRun.issued)
           /\ RowKey(i) \notin MRun.pending
           /\ RowKey(i) \notin DOMAIN MRun.cache
  /\ \A r \in 1..Len(runs) :
       \A no \in Range(runs[r].issued) \cup runs[r].pending :
         /\ Len(no) = 12
         /\ \A p \in 1..Len(no) : no[p] \in Digit

\* a 5-digit row stays skipped after the other rows' lookups have settled
C6_Witness ==
  /\ RunCompleted /\ MRun.issued # <<>>
  /\ \E i \in Rows : RowNo(i) = NoShort /\ certs[i].status = "skipped"

\* C12: in a run the progress count loaded increases each time one lookup
\* settles, so that it already counts the settled lookups while others are in
\* flight.
C12_ProgressPerSettle ==
  [][(Mounted /\ mountedRun' = mountedRun
        /\ runs'[mountedRun].pending # MRun.pending) => loaded' > loaded]_vars

\* C13: total is the number of selected rows, skipped rows included; loaded is
\* the number of rows that are not loading; it is at least the number of
\* skipped rows, at most total, and equal to total exactly when the lookup of
\* every valid number of the selection has settled.
C13_ProgressCounts ==
  Mounted =>
    LET skippedRows == {i \in Rows : ~RowValid(i)}
        doneRows    == {i \in Rows : certs[i].status \in {"success", "error", "skipped"}}
    IN  /\ total = Len(Sel)
        /\ loaded = Cardinality(doneRows)
        /\ loaded >= Cardinality(skippedRows)
        /\ loaded <= total
        /\ (loaded = total) <=> (DistinctValid \subseteq DOMAIN MRun.outcome)

\* a skipped row is counted while one of two lookups is still in flight
C13_Witness ==
  /\ Mounted
  /\ total = 3 /\ loaded = 1
  /\ \E i \in Rows : ~RowValid(i)
  /\ Cardinality(MRun.pending) = 1
  /\ Cardinality(DOMAIN MRun.outcome) = 1

\* C16: when every issued lookup settles, every row that is loading becomes
\* success or error and the print button becomes enabled, unless the modal is
\* closed before.
C16_AllResolved ==
  /\ \A i \in Rows : certs[i].status \in {"success", "error", "skipped"}
  /\ \A i \in Rows : RowValid(i) => certs[i].status \in {"success", "error"}
  /\ ~PrintDisabled
C16_EventuallyResolved == Mounted ~> (~Mounted \/ C16_AllResolved)

\* the last of three lookups has settled and the button is enabled
C16_Witness ==
  /\ RunCompleted /\ ~PrintDisabled /\ ~AnyLoading
  /\ Cardinality(DOMAIN MRun.outcome) = 2
  /\ Len(certs) = 3
  /\ \A i \in Rows : certs[i].status \in {"success", "error"}

\* C17: a lookup that settles writes the cache slot of its own number and no
\* other; no row changes before every lookup of the run has settled; the rows
\* change in one step, the one in which the last lookup settles, and every
\* loading row leaves loading in it.
C17_RowsUntouchedBeforeJoin ==
  (Mounted /\ MRun.pending # {}) => certs = InitialCerts(Sel)
C17_SlotOfOwnNumber ==
  \A r \in 1..Len(runs) :
    (runs'[r] # runs[r] /\ runs'[r] # DeadRun /\ r <= Len(runs)) =>
      \E k \in runs[r].pending :
        /\ runs'[r].pending = runs[r].pending \ {k}
        /\ DOMAIN runs'[r].cache = DOMAIN runs[r].cache \cup {k}
        /\ k \notin DOMAIN runs[r].cache
        /\ \A x \in DOMAIN runs[r].cache : runs'[r].cache[x] = runs[r].cache[x]
C17_OneReconciliation ==
  (Mounted /\ mountedRun' = mountedRun /\ certs' # certs) =>
    /\ MRun.pending # {}
    /\ runs'[mountedRun].pending = {}
    /\ \A i \in Rows : certs[i].status = "loading" => certs'[i].status # "loading"
C17_SingleReconciliationAfterJoin ==
  /\ []C17_RowsUntouchedBeforeJoin
  /\ [][C17_SlotOfOwnNumber]_vars
  /\ [][C17_OneReconciliation]_vars

\* one of two lookups has settled; both rows are as they were at the start
C17_Witness ==
  /\ Mounted
  /\ Len(certs) = 2
  /\ Cardinality(DOMAIN MRun.cache) = 1
  /\ Cardinality(MRun.pending) = 1
  /\ \A i \in Rows : certs[i].status = "loading"
  /\ \E k \in DOMAIN MRun.cache : MRun.cache[k].ok

\* C27: a row in state error carries a message that is not empty: the error
\* text of the response when the response has one, the message of the
\* exception when the fetch or the parse of the body threw an Error, and a
\* fixed text otherwise.
C27_ErrorRowsCarryMessage ==
  Mounted =>
    \A i \in Rows :
      certs[i].status = "error" =>
        LET o == MRun.outcome[StripNo(certs[i].animalNo)]
        IN  /\ certs[i].errorMsg # None
            /\ certs[i].errorMsg[1] # <<>>
            /\ certs[i].errorMsg[1] =
                 IF o.kind = "response"
                 THEN IF o.json.error # None
                      THEN o.json.error[1]
                      ELSE <<"lookup failed">>
                 ELSE IF o.isError THEN o.message ELSE <<"network error">>

\* one row failed by a response without error text, another by an exception
C27_Witness ==
  /\ Mounted
  /\ \E i, j \in Rows :
       /\ certs[i].status = "error" /\ certs[j].status = "error"
       /\ MRun.outcome[StripNo(certs[i].animalNo)] = Response(FALSE, Json(None, None, None))
       /\ certs[i].errorMsg = Some(MsgLookupFailed)
       /\ MRun.outcome[StripNo(certs[j].animalNo)].kind = "throw"
       /\ certs[j].errorMsg = Some(MsgFetch)

\* C19: a run starts with an empty cache and leaves the earlier runs as they
\* are; a lookup of a run whose modal was dismissed can still settle, and
\* that step changes neither the rows nor the run of the modal mounted now;
\* once the mounted run has joined, every row is what its own run's cache
\* makes of the row as initialised.
C19_FreshCache ==
  (mountedRun = 0 /\ mountedRun' # 0) =>
    /\ runs'[mountedRun'].cache = EmptyMap
    /\ \A r \in 1..Len(runs) : runs'[r] = runs[r]
C19_EarlierRunChangesNothing ==
  \A r \in 1..Len(runs) :
    (r # mountedRun /\ runs'[r] # runs[r]) =>
      /\ certs' = certs
      /\ certModalAnimals' = certModalAnimals
      /\ mountedRun' = mountedRun
      /\ Mounted => runs'[mountedRun] = runs[mountedRun]
C19_RowsOfOwnRun ==
  (Mounted /\ MRun.pending = {}) =>
    certs = [i \in 1..Len(Sel) |-> ReconcileRow(InitialCert(Sel[i]), MRun.cache)]
C19_EarlierResultsDiscarded ==
  /\ [][C19_FreshCache]_vars
  /\ [][C19_EarlierRunChangesNothing]_vars
  /\ []C19_RowsOfOwnRun

\* the first modal was dismissed with a lookup in flight and holds a record
\* for a number; the second modal has joined with no record for that number
\* and shows the row as failed
C19_Witness ==
  /\ mountedRun = 2
  /\ runs[1].pending # {}
  /\ NoA \in DOMAIN runs[1].cache /\ runs[1].cache[NoA].ok
  /\ runs[2].pending = {}
  /\ NoA \in DOMAIN runs[2].cache /\ ~runs[2].cache[NoA].ok
  /\ \E i \in 1..Len(certs) : certs[i].animalNo = NoA /\ certs[i].status = "error"

\* C18: when the updater runs, a row that is not skipped and whose stripped
\* number has no entry in the cache comes out exactly as it went in (status,
\* message and data); a row whose data changes gets the result stored under
\* its own stripped number.
RcMissing(i) ==
  /\ rcPrev[i].status # "skipped"
  /\ StripNo(rcPrev[i].animalNo) \notin DOMAIN rcCache
C18_MissingEntryKeepsRow ==
  rcNext # None =>
    /\ Len(rcNext[1]) = Len(rcPrev)
    /\ \A i \in 1..Len(rcPrev) :
         /\ RcMissing(i) => rcNext[1][i] = rcPrev[i]
         /\ rcNext[1][i].data # rcPrev[i].data =>
              /\ StripNo(rcPrev[i].animalNo) \in DOMAIN rcCache
              /\ rcNext[1][i].data = Some(rcCache[StripNo(rcPrev[i].animalNo)].json)

\* a row showing a record has no entry in a cache that holds the result of
\* another number, and the updater has run
C18_Witness ==
  /\ rcNext # None
  /\ rcCache # EmptyMap
  /\ \E i \in 1..Len(rcPrev) :
       /\ RcMissing(i)
       /\ rcPrev[i].status = "success"
       /\ rcNext[1][i] = rcPrev[i]

(***************************************************************************)
(* Properties of the lookup collaborator                                   *)
(***************************************************************************)
LkDone == lkRes # None
LkStatus == lkRes[1].status
LkJson == lkRes[1].body[1]
\* the issue entries that carry no issue id, and the step 2 calls that did not
\* end in a successful answer (written out, not computed)
NoIssueId(issueItem) == issueItem.issueNo \in {None, Some(<<" ">>)}
FailedCall(o) ==
  \/ o.kind = "throw"
  \/ o.status = "403"
  \/ o.json.error = Some(<<"upstream error">>)
LkEntries == 1..Len(lkIssueItems[1])
LkFailed == {i \in LkEntries : NoIssueId(lkIssueItems[1][i])}
              \cup {i \in DOMAIN lkCalls : FailedCall(lkCalls[i])}
LkDetailed == {i \in DOMAIN lkCalls :
                 ~FailedCall(lkCalls[i]) /\ lkCalls[i].json.items = Some(GradeItems)}

\* the row of the resolution engine for the number of the request, once the
\* response is the result of its lookup
EngineRow ==
  LET raw == lkReq[1].rawAnimalNo[1]
      c   == InitialCert([id |-> 1, animalNumber |-> raw])
  IN  ReconcileRow(c, MapSet(EmptyMap, StripNo(raw),
                             [ok |-> LkStatus \in 200..299, json |-> LkJson]))

\* C14: when step 1 has returned at least one issue entry the handler answers
\* success whatever the step 2 calls end in; the grade details are those of
\* the calls that did not fail; the diagnostic is a non-empty text when a call
\* failed or an issue id is missing, and null exactly when none did; the
\* resolution engine shows the row as success with that answer as its data.
C14_DetailFailureIsNotFatal ==
  (lkIssueItems # None /\ LkDone) =>
    /\ LkStatus = 200
    /\ LkJson.error = None
    /\ LkJson.items = Some(lkIssueItems[1])
    /\ Len(LkJson.gradeInfo[1]) = Cardinality(LkDetailed) * Len(GradeItems)
    /\ (LkFailed = LkEntries => LkJson.gradeInfo = Some(<<>>))
    /\ (LkJson.gradeInfoDebug = None) <=> (LkFailed = {})
    /\ (LkJson.gradeInfoDebug # None => LkJson.gradeInfoDebug[1] # <<>>)
    /\ EngineRow.status = "success"
    /\ EngineRow.data = Some(LkJson)

\* one entry without issue id and one whose call ran into the timer
C14_Witness ==
  /\ lkIssueItems # None /\ LkDone
  /\ Len(lkIssueItems[1]) = 2
  /\ NoIssueId(lkIssueItems[1][1])
  /\ 2 \in DOMAIN lkCalls /\ lkCalls[2].message = <<"timeout_20s">>
  /\ LkStatus = 200
  /\ LkJson.gradeInfo = Some(<<>>)
  /\ LkJson.gradeInfoDebug # None
  /\ EngineRow.status = "success"

\* a GET request with a valid number, and a step 1 call answered with success
\* and zero issue entries (written out, not computed)
ValidGet == lkReq # None /\ lkReq[1].method = "GET"
              /\ lkReq[1].rawAnimalNo \in {Some(NoA), Some(NoAHyphen)}
ZeroEntries ==
  /\ lkStep1 # None
  /\ lkStep1[1].kind = "response" /\ lkStep1[1].status = "200"
  /\ lkStep1[1].xml.resultCode \in {Some(<<"00">>), Some(<<"0">>)}
  /\ (lkStep1[1].xml.item.shape = "absent" \/ lkStep1[1].xml.item.elems = <<>>)
LkFailure == LkStatus \notin 200..299

\* C15: a valid number is answered with 404 exactly when step 1 succeeds with
\* zero issue entries; a missing API key, an upstream HTTP failure, an upstream
\* result code other than success and an exception are answered with another
\* non-success status; every failure response carries a non-empty error text.
C15_NotFoundOnlyForZeroEntries ==
  LkDone =>
    /\ ValidGet => ((LkStatus = 404) <=> ZeroEntries)
    /\ (ValidGet /\ lkStep1 = None) => (lkReq[1].apiKey = None /\ LkStatus = 500)
    /\ (ValidGet /\ lkStep1 # None /\ lkIssueItems = None /\ ~ZeroEntries) =>
         LkStatus = (IF lkStep1[1].status = "503" THEN 502 ELSE 500)
    /\ (LkFailure \/ lkIssueItems = None) =>
         (lkReq[1].method = "OPTIONS" \/ (LkFailure /\ Truthy(LkJson.error)))

\* step 1 answered with success and no entry: 404 with the number and a text
C15_Witness ==
  /\ LkDone /\ ValidGet /\ ZeroEntries
  /\ lkReq[1].rawAnimalNo = Some(NoAHyphen)
  /\ LkStatus = 404
  /\ LkJson.error = Some(MsgNotFound)
  /\ LkJson.animalNo = Some(<<"0", "0", "2", "1", "9", "1", "0", "4", "6", "2", "1", "6">>)

(***************************************************************************)
(* Properties of the Label Parser                                          *)
(***************************************************************************)
\* the record expected from the two numeric record lines of LinePool, field
\* by field as the label prints it (written out, not computed)
ExpectedRecord(line) ==
  CASE line = LineA ->
         [animalNumber   |-> <<"0", "0", "2", "1", "9", "2", "2", "0", "5", "6", "6", "7">>,
          birthDate      |-> <<"2", "0", "2", "5", "-", "1", "2", "-", "1", "0">>,
          cutName        |-> Some(<<"S", "d">>),
          processingType |-> Some(<<"D", "j">>),
          weightKg       |-> Some(<<"1", "4", ".", "1">>),
          destination    |-> Some(<<"G", "i", "l">>)]
    [] line = LineB ->
         [animalNumber   |-> <<"0", "0", "2", "1", "9", "2", "2", "0", "5", "6", "6", "8">>,
          birthDate      |-> <<"2", "0", "2", "5", "-", "1", "2", "-", "1", "1">>,
          cutName        |-> Some(<<"A", "b", " ", "c">>),
          processingType |-> Some(<<"S", "l">>),
          weightKg       |-> Some(<<"2">>),
          destination    |-> Some(<<"S", "a", "m">>)]
IsNumericRecord(line) == line \in {LineA, LineB}
IsLabelSecond(line) == line \in {Sec1, Sec2}
ClaimedFields(item) ==
  [animalNumber   |-> item.animalNumber,
   birthDate      |-> item.birthDate,
   cutName        |-> item.cutName,
   processingType |-> item.processingType,
   weightKg       |-> item.weightKg,
   destination    |-> item.destination]
Parsed == txtOut # None
Out == txtOut[1]

\* C10: a record line with a numeric primary number followed by a label line
\* (uppercase letter and at least 10 digits) gives exactly one record with the
\* number, date, cut name, processing type, weight and destination of the
\* first line; both lines are consumed and the second line gives no record.
C10_TwoLineRecord ==
  Parsed =>
    LET lines   == Out.lines
        records == SelectSeq(lines, IsNumericRecord)
    IN  /\ \A i \in 1..(Len(lines) - 1) :
             (IsNumericRecord(lines[i]) /\ IsLabelSecond(lines[i + 1])) =>
               /\ i \in Range(Out.visited)
               /\ (i + 1) \notin Range(Out.visited)
               /\ (i + 2 <= Len(lines) => (i + 2) \in Range(Out.visited))
        /\ (Len(lines) = 2 /\ IsNumericRecord(lines[1]) /\ IsLabelSecond(lines[2])) =>
             /\ Len(Out.items) = 1
             /\ ClaimedFields(Out.items[1]) = ExpectedRecord(lines[1])
        /\ Len(Out.items) = Len(records)
        /\ \A j \in 1..Len(records) :
             j <= Len(Out.items) /\ ClaimedFields(Out.items[j]) = ExpectedRecord(records[j])

\* the two lines of the label example have been parsed
C10_Witness ==
  /\ Parsed
  /\ txtText = LineA \o <<"\r", "\n">> \o Sec1
  /\ Out.lines = <<LineA, Sec1>>
  /\ Out.visited = <<1>>
  /\ Len(Out.items) = 1
  /\ Out.items[1].animalNumber = NoP
  /\ Out.items[1].breed = <<"H", "w", " ", "/", " ", "S", "d", " ", "(", "1", "4", ".", "1", "k", "g", ")">>

\* the lines of LinePool whose first field is not 8 digits (written out)
IsJunk(line) == line \in {Sec1, Sec2, SecLower, SecShort, SecNum, Header}

\* C11: a line whose first field is not exactly 8 digits is passed by
\* advancing one line and the parse goes on; any number of such lines followed
\* by one record line with a numeric number give exactly one record, the one
\* of that line.
C11_JunkLinesSkipped ==
  Parsed =>
    LET lines == Out.lines
        n     == Len(lines)
    IN  /\ \A i \in 1..(n - 1) :
             (IsJunk(lines[i]) /\ i \in Range(Out.visited)) =>
               (i + 1) \in Range(Out.visited)
        /\ (/\ n >= 1
            /\ IsNumericRecord(lines[n])
            /\ \A i \in 1..(n - 1) : IsJunk(lines[i])) =>
             /\ Len(Out.items) = 1
             /\ ClaimedFields(Out.items[1]) = ExpectedRecord(lines[n])
             /\ Out.visited = [i \in 1..n |-> i]
             /\ Out.message = None

\* a header line and a stray label line before one record line
C11_Witness ==
  /\ Parsed
  /\ Out.lines = <<Header, Sec1, LineA>>
  /\ Out.visited = <<1, 2, 3>>
  /\ Len(Out.items) = 1
  /\ Out.items[1].animalNumber = NoP

\* the lines of LinePool that start a record and the primary number each one
\* carries in field5, and what a line of LinePool can start with (written out)
IsRecordStart(line) == line \in {LineA, LineB, LineL, LineE, LineLower}
PrimaryOf(line) ==
  CASE line = LineA -> <<"0", "0", "2", "1", "9", "2", "2", "0", "5", "6", "6", "7">>
    [] line = LineB -> <<"0", "0", "2", "1", "9", "2", "2", "0", "5", "6", "6", "8">>
    [] line = LineL -> <<"L", "0", "0", "1", "2", "3", "4", "5", "6", "7", "8", "9">>
    [] line = LineLower -> <<"l", "0", "0", "1", "2", "3", "4", "5", "6", "7", "8", "9">>
    [] line = LineE -> <<>>
SecondaryNos ==
  { <<"L", "0", "0", "2", "1", "9", "2", "2", "0", "5", "6", "6", "7", "1">>,
    <<"l", "0", "0", "2", "1", "9", "2", "2", "0", "5", "6", "6", "7", "1">>,
    <<"A", "0", "1", "2", "3", "4", "5", "6", "7", "8", "9">>,
    <<"L", "1", "2", "3", "4", "5", "6", "7", "8", "9">>,
    <<"0", "0", "2", "1", "9", "2", "2", "0", "5", "6", "6", "9">>,
    <<"D", "a", "t", "e">>,
    <<"2", "0", "2", "5", "1", "2", "1", "0">>,
    <<"2", "0", "2", "5", "1", "2", "1", "1">> }
LetterInitial(no) ==
  no # <<>> /\ no[1] \in {"L", "l", "A", "a", "D", "d", "N", "n", "H", "h"}

\* C20: every record the parser emits carries field5 of a record-start line
\* the loop examined, and that number is not empty and starts neither with
\* an uppercase nor with a lowercase letter; the records follow the order of
\* their lines; the number a line that is not a record start begins with is
\* never the number of a record.
C20_OnlyPrimaryNumbers ==
  Parsed =>
    LET lines  == Out.lines
        starts == SelectSeq(Out.visited, LAMBDA i : /\ IsRecordStart(lines[i])
                                                    /\ PrimaryOf(lines[i]) # <<>>
                                                    /\ ~LetterInitial(PrimaryOf(lines[i])))
    IN  /\ Len(Out.items) = Len(starts)
        /\ \A j \in 1..Len(Out.items) :
             /\ j <= Len(starts) /\ Out.items[j].animalNumber = PrimaryOf(lines[starts[j]])
             /\ ~LetterInitial(Out.items[j].animalNumber)
             /\ Out.items[j].animalNumber \notin SecondaryNos

\* a record line with a lowercase letter number, a record line with a numeric
\* number and a line starting with a 12-digit number: one record, the numeric one
C20_Witness ==
  /\ Parsed
  /\ Out.lines = <<LineLower, LineA, SecNum>>
  /\ Out.visited = <<1, 2, 3>>
  /\ Len(Out.items) = 1
  /\ Out.items[1].animalNumber = NoP

\* C21: after a record-start line at position i the next line examined is
\* i + 2 when line i + 1 exists and starts with an uppercase letter and at
\* least 10 digits (Sec1, Sec2 of LinePool), and i + 1 in every other case;
\* past the last line nothing is examined.
NextExamined(k) == IF k < Len(Out.visited) THEN Out.visited[k + 1] ELSE Len(Out.lines) + 1
C21_AdvanceAfterRecord ==
  Parsed =>
    LET lines == Out.lines
        n     == Len(lines)
    IN  \A k \in 1..Len(Out.visited) :
          LET i == Out.visited[k]
          IN  IsRecordStart(lines[i]) =>
                IF i + 1 <= n /\ IsLabelSecond(lines[i + 1])
                THEN NextExamined(k) = IF i + 2 <= n THEN i + 2 ELSE n + 1
                ELSE NextExamined(k) = i + 1

\* a record line with a letter number, a label line and another record
\* line: line 2 is passed over and line 3 is examined next
C21_Witness ==
  /\ Parsed
  /\ Len(Out.lines) = 3
  /\ Out.lines[1] = LineL /\ Out.lines[2] = Sec2 /\ Out.lines[3] = LineA
  /\ Out.visited = <<1, 3>>

\* C22 as stated: a text that is not empty and gives no record is answered
\* with the message that no identifier was found, addAnimals is not called
\* and the row list stays as it was.
C22_NonEmptyTextNothingFound ==
  (Parsed /\ txtText # <<>> /\ Out.items = <<>>) =>
    /\ Out.message = Some(MsgTxtNone)
    /\ ~Out.calls /\ lastCall = None
    /\ animalList = <<>>

\* C22: a text with at least one line that is not blank and no record is
\* answered with the message that no identifier was found; a text whose
\* lines are all blank is answered with the message that the file has no
\* data; in both cases there is one message, addAnimals is not called and
\* the row list stays as it was.
C22_NothingFound ==
  (Parsed /\ Out.items = <<>>) =>
    /\ Out.message = IF Out.lines # <<>> THEN Some(MsgTxtNone) ELSE Some(MsgTxtEmpty)
    /\ ~Out.calls /\ lastCall = None
    /\ animalList = <<>>

\* a record line with a letter number and a header line: nothing found
C22_Witness ==
  /\ Parsed
  /\ Out.lines = <<LineL, Header>>
  /\ Out.items = <<>>
  /\ Out.message = Some(MsgTxtNone)
  /\ animalList = <<>> /\ lastCall = None

\* the record-start lines of the text whose primary number starts with a letter
LetterStarts ==
  {i \in 1..Len(Out.lines) : IsRecordStart(Out.lines[i]) /\ LetterInitial(PrimaryOf(Out.lines[i]))}

\* C23: for a text with k record-start lines whose primary number starts with
\* a letter, the ingestion reports k excluded numbers (labelSkipCount of its
\* addAnimals call) and none of the k numbers is in a record or in a row.
C23_DroppedAreCounted ==
  Parsed =>
    LET k == Cardinality(LetterStarts)
    IN  /\ k > 0 => (lastCall # None /\ lastCall[1].labelSkipCount = k)
        /\ \A i \in LetterStarts :
             /\ \A j \in 1..Len(Out.items) : Out.items[j].animalNumber # PrimaryOf(Out.lines[i])
             /\ \A j \in 1..Len(animalList) : animalList[j].animalNumber # PrimaryOf(Out.lines[i])

\* a parser that examines every line: a record for each line whose first
\* field is 8 digits and whose sixth field is not empty and does not start
\* with a letter
RECURSIVE EveryLine(_, _)
EveryLine(lines, i) ==
  IF i > Len(lines) THEN <<>>
  ELSE LET parts == Split(lines[i], "|")
       IN  (IF IsDate8(Field(parts, 0)) /\ Emits(Field(parts, 5))
            THEN <<LabelItem(parts)>> ELSE <<>>)
             \o EveryLine(lines, i + 1)

\* C30: for every text the records of the parser are, in number and order
\* and field by field, those of a parser that moves on by one line after
\* every record; a line passed over as second line starts with a letter and
\* is not a record start.
C30_SameAsOneLineAdvance ==
  Parsed =>
    /\ Out.items = EveryLine(Out.lines, 1)
    /\ \A i \in 1..Len(Out.lines) :
         i \notin Range(Out.visited) =>
           /\ LetterInitial(Out.lines[i])
           /\ ~IsRecordStart(Out.lines[i])

\* two record lines with a label line between them: the label line is
\* passed over and both records are emitted
C30_Witness ==
  /\ Parsed
  /\ Out.lines = <<LineA, Sec1, LineB>>
  /\ Out.visited = <<1, 3>>
  /\ Len(Out.items) = 2
  /\ Out.items[1].animalNumber = NoP /\ Out.items[2].animalNumber = NoQ

(***************************************************************************)
(* Properties of the Deduplicating Ingest Store                            *)
(***************************************************************************)
\* the records the inputs and files above hand to addAnimals
ItemPool ==
  {BarcodeBatch[input][1] : input \in BarcodeInputs}
    \cup UNION {Range(FileBatch[file]) : file \in DroppedFiles}

\* the numbers of ItemPool that start with a letter once hyphens and spaces
\* are removed (written out, not computed)
LetterNos == {<<"L", "0", "0", "1", "2", "3", "4", "5", "6", "7", "8", "9">>,
              <<"-", " ", "L", "0", "0", "1", "2", "3", "4", "5", "6", "7", "8", "9">>}

\* the four delivery fields, an absent one counted as empty
DeliveryOf(x) ==
  [f \in {"destination", "cutName", "processingType", "weightKg"} |->
     IF x[f] = None THEN <<>> ELSE x[f][1]]
SameRecord(x, y) == x.animalNumber = y.animalNumber /\ DeliveryOf(x) = DeliveryOf(y)
Called == lastCall # None
Call == lastCall[1]
RowsOf(list) == 1..Len(list)

\* C7: a call of addAnimals with the batch of the call just before it adds
\* nothing and leaves the length of the row list as it is.
C7_SecondCallAddsNothing ==
  [][(Called /\ lastCall' # None /\ lastCall'[1].items = Call.items) =>
       (lastCall'[1].addedCount = 0 /\ Len(animalList') = Len(animalList))]_vars

\* both records of a pair offered to addAnimals are rows afterwards
BothRetained(list, x, y) ==
  LET after == list \o addAnimals(list, <<x, y>>).added
  IN  \E i, j \in RowsOf(after) :
        i # j /\ SameRecord(after[i], x) /\ SameRecord(after[j], y)

\* a record is counted as a duplicate only when a row has its five fields
DuplicateOnlyWhenEqual(list, y) ==
  addAnimals(list, <<y>>).duplicateCount = 1 =>
    \E i \in RowsOf(list) : SameRecord(list[i], y)

C9_NoLetterRows ==
  /\ \A i \in RowsOf(animalList) : animalList[i].animalNumber \notin LetterNos
  /\ Called =>
       /\ Call.labelSkipCount =
            Cardinality({k \in RowsOf(Call.items) : Call.items[k].animalNumber \in LetterNos})
       /\ Call.addedCount + Call.duplicateCount + Call.labelSkipCount = Len(Call.items)

\* a spreadsheet with a number and a hyphenated letter number has been added:
\* one row added, one record excluded
C9_Witness ==
  /\ Called
  /\ Len(Call.items) = 2
  /\ Call.items[2].animalNumber = NoHyLabel
  /\ Call.addedCount = 1
  /\ Call.labelSkipCount = 1
  /\ animalList # <<>>
  /\ animalList[Len(animalList)].animalNumber = NoP

\* the classification of the records of a batch offered to the list before
\* the call: excluded by the letter test, duplicate of a row or of an earlier
\* record of the batch that is not excluded, or added
Excluded(items) == {k \in RowsOf(items) : items[k].animalNumber \in LetterNos}
Duplicates(list, items) ==
  {k \in RowsOf(items) \ Excluded(items) :
     \/ \E i \in RowsOf(list) : SameRecord(list[i], items[k])
     \/ \E j \in 1..(k - 1) : j \notin Excluded(items) /\ SameRecord(items[j], items[k])}
Additions(list, items) == RowsOf(items) \ (Excluded(items) \cup Duplicates(list, items))

\* C24: a call of addAnimals counts every record of the batch once, as
\* added, duplicate or excluded, so the three counts sum to the length of the
\* batch; a record with a letter number is counted as excluded and not as
\* duplicate, also when a row with its key is in the list.
C24_CallStep ==
  (lastCall = None /\ lastCall' # None) =>
    LET c     == lastCall'[1]
        items == c.items
    IN  /\ c.labelSkipCount = Cardinality(Excluded(items))
        /\ c.duplicateCount = Cardinality(Duplicates(animalList, items))
        /\ c.addedCount = Cardinality(Additions(animalList, items))
        /\ c.addedCount + c.duplicateCount + c.labelSkipCount = Len(items)
        /\ Len(animalList') = Len(animalList) + c.addedCount
C24_EachRecordCountedOnce == [][C24_CallStep]_vars

\* a batch of three: one added, one duplicate of a row, one with a letter
\* number whose key a row of the list carries
C24_Witness ==
  /\ Called
  /\ Len(Call.items) = 3
  /\ Call.addedCount = 1 /\ Call.duplicateCount = 1 /\ Call.labelSkipCount = 1
  /\ \E k \in Excluded(Call.items) : \E i \in RowsOf(animalList) :
       SameRecord(animalList[i], Call.items[k])

\* the k-th smallest member of a set of positions
Nth(S, k) == CHOOSE x \in S : Cardinality({y \in S : y <= x}) = k

\* C25: a record whose key is that of a record added earlier in the same
\* batch is counted as duplicate and not added; a call of addAnimals while
\* the list is empty adds one row for each distinct key among the records of
\* the batch that are not excluded, in the order in which the keys first occur.
C25_CallStep ==
  (lastCall' # None /\ animalList = <<>>) =>
    LET c      == lastCall'[1]
        items  == c.items
        firsts == Additions(<<>>, items)
    IN  /\ c.duplicateCount = Cardinality(Duplicates(<<>>, items))
        /\ Len(animalList') = Cardinality(firsts)
        /\ \A m \in 1..Cardinality(firsts) :
             m <= Len(animalList') /\ SameRecord(animalList'[m], items[Nth(firsts, m)])
C25_DuplicateWithinBatch == [][C25_CallStep]_vars

\* the ids of the rows a call has appended
NewIds == {animalList'[i].id : i \in (Len(animalList) + 1)..Len(animalList')}

\* C26: every id a call of addAnimals assigns is greater than every id
\* assigned before in the session, also when rows were deleted or the list
\* was cleared in between, so that no id is used twice.
C26_CallStep ==
  lastCall' # None =>
    \A id \in NewIds : \A old \in issuedIds : id > old
C26_IdsNeverReused == [][C26_CallStep]_vars

\* C28: the ids of the rows of the list are pairwise distinct in every
\* state, also when a file read or an image decode that was started earlier
\* completes after other rows were added; so a deletion or a toggle by id
\* changes one row at most.
C28_IdsPairwiseDistinct ==
  \A i, j \in RowsOf(animalList) : i # j => animalList[i].id # animalList[j].id

\* C29: no two rows of the list have the same number, destination, cut name,
\* processing type and weight, also when two reads of the same records
\* overlap.
C29_DistinctKeys ==
  \A i, j \in RowsOf(animalList) : i # j => ~SameRecord(animalList[i], animalList[j])

====
